---- MODULE Spec2Model ----
(***************************************************************************)
(* Model of the HDB resale ETL pipeline: the extraction layer              *)
(* (extraction_layer.py): the paginated fetch loop with its adaptive page  *)
(* size, the fingerprint gate, the skip decision for historical datasets   *)
(* and the per-dataset orchestration against the object store.             *)
(*                                                                         *)
(* Records of an upstream dataset are identified by their position, so a   *)
(* page of records is the interval [lo, hi) of positions of one resource;  *)
(* a list of records is the sequence of the pages it was extended with.    *)
(***************************************************************************)
EXTENDS Integers, Sequences, FiniteSets, TLC

\* ------------------------------------------------------------------------
\* Configuration (extraction_layer.py lines 10-26, 90, 188)
\* ------------------------------------------------------------------------
S3_RAW_PREFIX == "raw/"
S3_METADATA_PREFIX == "metadata/"

DATASETS ==
    [historical |-> << [name |-> "1990-1999", id |-> "d_ebc5"],
                       [name |-> "2000-2012", id |-> "d_43f4"],
                       [name |-> "2012-2014", id |-> "d_2d5f"],
                       [name |-> "2015-2016", id |-> "d_ea9e"] >>,
     incremental |-> << [name |-> "2017-onwards", id |-> "d_8b84"] >>]

DefaultLimit == 15000
MinLimit == 1000

\* ------------------------------------------------------------------------
\* Bounds of the model
\* ------------------------------------------------------------------------
\* the upstream dataset holds 0, 750, ..., 750 * MaxChunks records, or 20000
MaxChunks == 4
\* page sizes a direct caller passes: 500, 1000, ..., 500 * MaxLimitSteps
MaxLimitSteps == 4

\* the incremental dataset holds 0, 750, ..., 750 * MaxGrowth records when the
\* handler runs (the historical datasets are closed: 1500 records each)
MaxGrowth == 1
\* invocations of the handler, each in a second of its own (datetime.now() of
\* the upload key)
MaxRuns == 2
\* failures (a storage call that is not answered, a fetch that raises) the world
\* injects into the handler's runs
MaxFaults == 1
\* rows of the frames the transformation functions are called on
MaxRows == 3

ApiTotals == {750 * k : k \in 0..MaxChunks} \cup {20000}
CallerLimits == {500 * k : k \in 1..MaxLimitSteps} \cup {DefaultLimit}
\* thresholds of an upstream that rejects every page size above the threshold
ApiThresholds == {400, 999, 1000, 1200, 4000}
ResourceIds == {"d_ebc5", "d_8b84"}

Max(a, b) == IF a >= b THEN a ELSE b
Min(a, b) == IF a <= b THEN a ELSE b

\* ------------------------------------------------------------------------
\* The upstream API (data.gov.sg datastore_search), as the fetch loop sees it
\* ------------------------------------------------------------------------
\* records [offset, offset+limit) of a dataset of `total` records
Slice(id, off, lim, total) ==
    [id |-> id, lo |-> Min(off, total), hi |-> Min(off + lim, total)]

PageLen(p) == p.hi - p.lo

\* len() of a list of records held as pages
RECURSIVE RecordCount(_)
RecordCount(pages) ==
    IF pages = <<>> THEN 0 ELSE PageLen(Head(pages)) + RecordCount(Tail(pages))

NoPage == [id |-> "", lo |-> 0, hi |-> 0]

\* a response: an HTTP response with a status and a JSON body, or a transport
\* failure of requests.get (a timeout, any other RequestException)
HttpResponse(status, shape, page) ==
    [kind |-> "http", status |-> status, shape |-> shape, records |-> page]
TimeoutResponse == [kind |-> "timeout", status |-> 0, shape |-> "", records |-> NoPage]
ConnResponse == [kind |-> "conn", status |-> 0, shape |-> "", records |-> NoPage]
NoResponse == [kind |-> "none", status |-> 0, shape |-> "", records |-> NoPage]

OkResponse(id, off, lim, total) == HttpResponse(200, "full", Slice(id, off, lim, total))

\* what the upstream may answer to one request, by its behaviour:
\*   "serve":  rejects with 413 every page size above the threshold, serves the rest
\*   "down":   times out on every request
\*   "chaos":  any answer
ApiResponses(mode, threshold, id, off, lim, total) ==
    CASE mode = "serve" ->
           IF lim > threshold THEN {HttpResponse(413, "", NoPage)}
           ELSE {OkResponse(id, off, lim, total)}
      [] mode = "down" -> {TimeoutResponse}
      [] OTHER ->
           {OkResponse(id, off, lim, total), TimeoutResponse, ConnResponse}
           \cup {HttpResponse(s, "", NoPage) : s \in {413, 500, 404}}
           \cup {HttpResponse(200, sh, NoPage) : sh \in {"noresult", "norecords"}}

\* ------------------------------------------------------------------------
\* State
\* ------------------------------------------------------------------------
VARIABLES
    \* locals of fetch_all_records (extraction_layer.py lines 145-223)
    fpc,            \* "idle", "loop" (inside while True), "returned", "raised"
    dataset_id,
    all_records,
    offset,
    limit,
    initial_limit,
    fetched,        \* what the call handed to its caller
    \* the upstream, fixed for the duration of one call
    apiMode,
    apiThreshold,
    apiTotal,
    \* history of the call
    lastReq,        \* the last request issued
    lastResp,       \* the answer to it
    served,         \* the pages of every well-formed answer, in request order
    clean,          \* no request of this call has failed so far
    tick            \* parity of the number of requests issued

fetchVars == <<fpc, dataset_id, all_records, offset, limit, initial_limit, fetched,
               apiMode, apiThreshold, apiTotal, lastReq, lastResp, served, clean, tick>>

VARIABLES
    s3,             \* the bucket: object key -> body
    hpc,            \* lambda_handler: "idle", "running", "returned"
    process_mode,
    todo,           \* the datasets the two for-loops have still to process
    results,
    summary,        \* the value lambda_handler returned last
    run,            \* history: the process_dataset call that ended last
    incrLast,       \* history: the last call that ended, per incremental dataset
    faults,         \* history: failures the world has injected so far
    now,            \* the clock, in seconds, read when the handler is invoked
    probe           \* the last direct call of a storage-reading helper

pipeVars == <<s3, hpc, process_mode, todo, results, summary, run, incrLast, faults, now, probe>>

VARIABLES
    frame,          \* transformation layer: the DataFrame a function is called on
    tout,           \* the value the last call of a function returned
    processed       \* the bucket of the processed data: object key -> body

frameVars == <<frame, tout, processed>>

vars == <<fetchVars, pipeVars, frameVars>>

NoRequest == [resource_id |-> "", offset |-> -1, limit |-> 0]
NotFetched == [status |-> "none", records |-> <<>>, exc |-> ""]

\* ------------------------------------------------------------------------
\* fetch_all_records (extraction_layer.py lines 90-223)
\* ------------------------------------------------------------------------
\* the halving without its clamp
ReducedLimitUnclamped(lim) == lim \div 2

\* line 188: cut in half, minimum 1000
ReducedLimit(lim) == Max(MinLimit, lim \div 2)

\* the page replaces the collection instead of extending it
ExtendOverwrites(all, page) == <<page>>

\* line 176: all_records.extend(records)
Extend(all, page) == Append(all, page)

\* line 177: offset += limit
Advance(off, lim) == off + lim

\* line 164: 'result' in output and 'records' in output['result']
ShapeOk(resp) == resp.shape = "full"

\* lines 158, 183-204: raise_for_status and the HTTPError handler
OnHttpError(status) == IF status = 413 THEN "shrink" ELSE "raise"

\* every transport failure handled like a timeout
OnTransportErrorRetryAll(kind) == "retry"

\* lines 206-215: the Timeout handler retries, any other RequestException fails
OnTransportError(kind) == IF kind = "timeout" THEN "retry" ELSE "raise"

\* the exception a failing iteration raises to the caller
ExcName(resp) ==
    CASE resp.kind = "conn" -> "ConnectionError"
      [] resp.kind = "timeout" -> "Timeout"
      [] resp.kind = "http" /\ resp.status >= 400 -> "HTTPError"
      [] OTHER -> "ValueError"

\* one iteration of the while loop (lines 149-221) on the answer `resp`
Iteration(all, off, lim, resp) ==
    LET same == [pc |-> "loop", all_records |-> all, offset |-> off, limit |-> lim]
        fail == [same EXCEPT !.pc = "raised"]
    IN  CASE resp.kind = "http" /\ resp.status >= 400 ->
               IF OnHttpError(resp.status) = "shrink"
               THEN LET l2 == ReducedLimit(lim)
                    IN  IF l2 < MinLimit
                        THEN [fail EXCEPT !.limit = l2]
                        ELSE [same EXCEPT !.limit = l2]
               ELSE fail
          [] resp.kind = "http" /\ resp.status < 400 ->
               IF ~ShapeOk(resp) THEN fail
               ELSE IF PageLen(resp.records) = 0 THEN [same EXCEPT !.pc = "returned"]
               ELSE [same EXCEPT !.all_records = Extend(all, resp.records),
                                 !.offset = Advance(off, lim)]
          [] OTHER ->
               IF OnTransportError(resp.kind) = "retry" THEN same ELSE fail

WellFormed(resp) == resp.kind = "http" /\ resp.status < 400 /\ resp.shape = "full"

\* a caller enters the function: lines 145-147
FetchEnter(id, lim, mode, threshold, total) ==
    /\ fpc' = "loop"
    /\ dataset_id' = id
    /\ all_records' = <<>>
    /\ offset' = 0
    /\ limit' = lim
    /\ initial_limit' = lim
    /\ fetched' = NotFetched
    /\ apiMode' = mode
    /\ apiThreshold' = threshold
    /\ apiTotal' = total
    /\ lastReq' = NoRequest
    /\ lastResp' = NoResponse
    /\ served' = <<>>
    /\ clean' = TRUE
    /\ tick' = 0

\* fetch_all_records(dataset_id, limit) called directly
FetchCall ==
    /\ fpc = "idle"
    /\ \E id \in ResourceIds, lim \in CallerLimits, total \in ApiTotals,
          mode \in {"serve", "down", "chaos"}, threshold \in ApiThresholds :
          /\ mode # "serve" => threshold = 1000
          /\ FetchEnter(id, lim, mode, threshold, total)
    /\ UNCHANGED <<pipeVars, frameVars>>

\* one pass through the loop body: one request, its answer, and the handler
FetchStep ==
    /\ fpc = "loop"
    /\ \E resp \in ApiResponses(apiMode, apiThreshold, dataset_id, offset, limit, apiTotal) :
          LET next == Iteration(all_records, offset, limit, resp)
          IN  /\ fpc' = next.pc
              /\ all_records' = next.all_records
              /\ offset' = next.offset
              /\ limit' = next.limit
              /\ fetched' = CASE next.pc = "returned" ->
                                   [status |-> "return", records |-> next.all_records, exc |-> ""]
                              [] next.pc = "raised" ->
                                   [status |-> "raise", records |-> <<>>, exc |-> ExcName(resp)]
                              [] OTHER -> fetched
              /\ lastReq' = [resource_id |-> dataset_id, offset |-> offset, limit |-> limit]
              /\ lastResp' = resp
              /\ served' = IF WellFormed(resp) THEN Append(served, resp.records) ELSE served
              /\ clean' = (clean /\ WellFormed(resp))
              /\ tick' = 1 - tick
    /\ UNCHANGED <<dataset_id, initial_limit, apiMode, apiThreshold, apiTotal>>
    /\ UNCHANGED <<pipeVars, frameVars>>

\* no call of fetch_all_records is active
FetchIdle ==
    /\ fpc = "idle"
    /\ dataset_id = ""
    /\ all_records = <<>>
    /\ offset = 0
    /\ limit = DefaultLimit
    /\ initial_limit = DefaultLimit
    /\ fetched = NotFetched
    /\ apiMode = "serve"
    /\ apiThreshold = 1000
    /\ apiTotal = 0
    /\ lastReq = NoRequest
    /\ lastResp = NoResponse
    /\ served = <<>>
    /\ clean = TRUE
    /\ tick = 0

FetchReset ==
    /\ fpc' = "idle"
    /\ dataset_id' = ""
    /\ all_records' = <<>>
    /\ offset' = 0
    /\ limit' = DefaultLimit
    /\ initial_limit' = DefaultLimit
    /\ fetched' = NotFetched
    /\ apiMode' = "serve"
    /\ apiThreshold' = 1000
    /\ apiTotal' = 0
    /\ lastReq' = NoRequest
    /\ lastResp' = NoResponse
    /\ served' = <<>>
    /\ clean' = TRUE
    /\ tick' = 0

\* the direct caller takes the result (line 223) or the exception: the frame is gone
FetchExit ==
    /\ fpc \in {"returned", "raised"}
    /\ FetchReset
    /\ UNCHANGED <<pipeVars, frameVars>>

\* every way a call fetch_all_records(id, lim) can end against an upstream of
\* `total` records that may answer anything: the loop body is iterated on every
\* answer that changes the loop's state (a call that is answered with timeouts
\* or 413s for ever does not end). `collected` is the number of pages held when
\* the call ended.
RECURSIVE FetchRuns(_, _, _, _, _)
FetchRuns(id, total, all, off, lim) ==
    LET answers == ApiResponses("chaos", 0, id, off, lim, total)
        After(r) == Iteration(all, off, lim, r)
        ended == {r \in answers : After(r).pc # "loop"}
        moved == {r \in answers :
                     /\ After(r).pc = "loop"
                     /\ <<After(r).all_records, After(r).offset, After(r).limit>>
                            # <<all, off, lim>>}
    IN  {IF After(r).pc = "returned"
         THEN [status |-> "return", records |-> After(r).all_records, exc |-> "",
               collected |-> Len(After(r).all_records)]
         ELSE [status |-> "raise", records |-> <<>>, exc |-> ExcName(r),
               collected |-> Len(After(r).all_records)] : r \in ended}
        \cup UNION {FetchRuns(id, total, After(r).all_records, After(r).offset,
                              After(r).limit) : r \in moved}

\* fetch_all_records(dataset_id) as process_dataset calls it (line 444)
fetch_all_records(id, total) == FetchRuns(id, total, <<>>, 0, DefaultLimit)

\* ------------------------------------------------------------------------
\* The object store (boto3 S3 client, line 28) and the helpers that use it
\* ------------------------------------------------------------------------
\* keys are sequences of the pieces the f-strings join
MetadataKey(name) == <<S3_METADATA_PREFIX, name, "_hash.txt">>
RawPrefix(name) == <<S3_RAW_PREFIX, name, "_">>
RawKey(name, timestamp) == RawPrefix(name) \o <<timestamp, ".csv">>

StartsWith(key, prefix) ==
    /\ Len(key) >= Len(prefix)
    /\ SubSeq(key, 1, Len(prefix)) = prefix

EmptyBucket == [k \in {} |-> ""]

put_object(bucket, key, body) ==
    [k \in DOMAIN bucket \cup {key} |-> IF k = key THEN body ELSE bucket[k]]

\* a lookup of the prefix as a key instead of a listing under it
HasContentsAtKey(bucket, prefix) == prefix \in DOMAIN bucket

\* list_objects_v2(Prefix=prefix, MaxKeys=1): 'Contents' present and non-empty
HasContents(bucket, prefix) == \E k \in DOMAIN bucket : StartsWith(k, prefix)

\* Python's None
None == "<None>"

\* Python's `not v` for a value that is None or a string
Falsy(v) == v = None \/ v = ""

\* pd.DataFrame(records).to_csv(index=False): the rows in order, whatever the
\* pages they came in
RECURSIVE Rows(_)
Rows(pages) ==
    IF Len(pages) <= 1 THEN pages
    ELSE LET a == pages[1]
             b == pages[2]
         IN  IF a.id = b.id /\ a.hi = b.lo
             THEN Rows(<<[id |-> a.id, lo |-> a.lo, hi |-> b.hi]>> \o SubSeq(pages, 3, Len(pages)))
             ELSE <<a>> \o Rows(Tail(pages))

to_csv(records) == "csv" \o ToString(Rows(records))

\* lines 227-253: the MD5 hex digest of the data
calculate_hash(data) == "md5(" \o data \o ")"

\* lines 257-288: the stored hash, None when the object cannot be read
get_last_hash_from_s3(bucket, dataset_name, getOk) ==
    LET s3_key == MetadataKey(dataset_name)
    IN  IF getOk /\ s3_key \in DOMAIN bucket THEN bucket[s3_key] ELSE None

\* the gate never lets a dataset be skipped
should_process_always(bucket, dataset_name, current_hash, getOk) == TRUE

\* the gate without the truthiness test of line 330
should_process_strict(bucket, dataset_name, current_hash, getOk) ==
    current_hash # get_last_hash_from_s3(bucket, dataset_name, getOk)

\* lines 311-336
should_process_dataset(bucket, dataset_name, current_hash, getOk) ==
    LET last_hash == get_last_hash_from_s3(bucket, dataset_name, getOk)
    IN  IF Falsy(last_hash) THEN TRUE
        ELSE IF current_hash = last_hash THEN FALSE ELSE TRUE

\* the skip decision listing the bucket for every dataset type
check_if_already_downloaded_any_type(bucket, dataset_name, dataset_type, listOk) ==
    IF ~listOk THEN FALSE ELSE HasContents(bucket, RawPrefix(dataset_name))

\* the skip decision failing closed: a list call that fails counts as a hit
check_if_already_downloaded_closed(bucket, dataset_name, dataset_type, listOk) ==
    IF dataset_type = "incremental" THEN FALSE
    ELSE IF ~listOk THEN TRUE
    ELSE HasContents(bucket, RawPrefix(dataset_name))

\* lines 375-410
check_if_already_downloaded(bucket, dataset_name, dataset_type, listOk) ==
    IF dataset_type = "incremental" THEN FALSE
    ELSE IF ~listOk THEN FALSE
    ELSE HasContents(bucket, RawPrefix(dataset_name))

\* ------------------------------------------------------------------------
\* process_dataset (lines 413-489)
\* ------------------------------------------------------------------------
NoRows == 0 - 1

Result(name, status, message, rows) ==
    [dataset |-> name, status |-> status, message |-> message, rows |-> rows]

\* one call of the storage client: the operation, its key or prefix, whether
\* the store answered
Call(op, key, ok) == [op |-> op, key |-> key, ok |-> ok]

NoFetch == [status |-> "none", records |-> <<>>, exc |-> "", collected |-> 0]

\* a fetch that raised after it had collected pages is taken as a fetch that
\* returned
FetchFailedEmpty(fetch) == fetch.status = "raise" /\ fetch.collected = 0

\* line 444: the exception of fetch_all_records leaves the try block (line 476)
FetchFailed(fetch) == fetch.status = "raise"

\* the two writes in the other order: the fingerprint first, then the raw object
save_hash_then_upload(bucket, dataset_name, csv_data, current_hash, env) ==
    LET s3_key == RawKey(dataset_name, env.timestamp)
        saved == put_object(bucket, MetadataKey(dataset_name), current_hash)
        uploaded == put_object(saved, s3_key, csv_data)
        put_raw == <<Call("put", s3_key, env.putRawOk)>>
        put_hash == <<Call("put", MetadataKey(dataset_name), env.putHashOk)>>
    IN  CASE ~env.putHashOk ->
               [status |-> "raise", bucket |-> bucket, calls |-> put_hash]
          [] env.putHashOk /\ ~env.putRawOk ->
               [status |-> "raise", bucket |-> saved, calls |-> put_hash \o put_raw]
          [] OTHER ->
               [status |-> "return", bucket |-> uploaded, calls |-> put_hash \o put_raw]

\* lines 466-467: upload_to_s3 (lines 359-372) puts the raw object under a key
\* with the timestamp, and once it has returned save_hash_to_s3 (lines 304-308)
\* puts the fingerprint; a put that is not answered raises out of both
upload_then_save_hash(bucket, dataset_name, csv_data, current_hash, env) ==
    LET s3_key == RawKey(dataset_name, env.timestamp)
        uploaded == put_object(bucket, s3_key, csv_data)
        saved == put_object(uploaded, MetadataKey(dataset_name), current_hash)
        put_raw == <<Call("put", s3_key, env.putRawOk)>>
        put_hash == <<Call("put", MetadataKey(dataset_name), env.putHashOk)>>
    IN  CASE ~env.putRawOk ->
               [status |-> "raise", bucket |-> bucket, calls |-> put_raw]
          [] env.putRawOk /\ ~env.putHashOk ->
               [status |-> "raise", bucket |-> uploaded, calls |-> put_raw \o put_hash]
          [] OTHER ->
               [status |-> "return", bucket |-> saved, calls |-> put_raw \o put_hash]

\* One call of process_dataset on the bucket. `env` is what the world decides
\* during the call: whether each storage call is answered (listOk, getOk,
\* putRawOk, putHashOk), how the fetch ends (fetch) and the upload's timestamp.
\* The value has the result returned, the bucket afterwards, the storage calls
\* made in order and the fetch outcome that was used.
process_dataset(bucket, dataset_info, dataset_type, env) ==
    LET dataset_name == dataset_info.name
        listed == dataset_type = "historical"
        already == listed /\ check_if_already_downloaded(bucket, dataset_name,
                                                         dataset_type, env.listOk)
        list_calls == IF listed
                      THEN <<Call("list", RawPrefix(dataset_name), env.listOk)>>
                      ELSE <<>>
        records == env.fetch.records
        csv_data == to_csv(records)
        current_hash == calculate_hash(csv_data)
        gated == dataset_type = "incremental"
        unchanged == gated /\ ~should_process_dataset(bucket, dataset_name,
                                                      current_hash, env.getOk)
        get_calls == IF gated
                     THEN <<Call("get", MetadataKey(dataset_name), env.getOk)>>
                     ELSE <<>>
        stored == upload_then_save_hash(bucket, dataset_name, csv_data, current_hash, env)
    IN  CASE already ->
               [result |-> Result(dataset_name, "skipped",
                                  "Historical dataset already exists in S3", NoRows),
                bucket |-> bucket, calls |-> list_calls, fetch |-> NoFetch,
                csv |-> "", hash |-> ""]
          [] ~already /\ FetchFailed(env.fetch) ->
               [result |-> Result(dataset_name, "error", env.fetch.exc, NoRows),
                bucket |-> bucket, calls |-> list_calls, fetch |-> env.fetch,
                csv |-> "", hash |-> ""]
          [] ~already /\ ~FetchFailed(env.fetch) /\ unchanged ->
               [result |-> Result(dataset_name, "skipped",
                                  "No changes detected (hash match)", NoRows),
                bucket |-> bucket, calls |-> list_calls \o get_calls,
                fetch |-> env.fetch, csv |-> csv_data, hash |-> current_hash]
          [] ~already /\ ~FetchFailed(env.fetch) /\ ~unchanged /\ stored.status = "raise" ->
               [result |-> Result(dataset_name, "error", "ClientError", NoRows),
                bucket |-> stored.bucket,
                calls |-> list_calls \o get_calls \o stored.calls,
                fetch |-> env.fetch, csv |-> csv_data, hash |-> current_hash]
          [] OTHER ->
               [result |-> Result(dataset_name, "processed", "Successfully uploaded",
                                  RecordCount(records)),
                bucket |-> stored.bucket,
                calls |-> list_calls \o get_calls \o stored.calls,
                fetch |-> env.fetch, csv |-> csv_data, hash |-> current_hash]

\* ------------------------------------------------------------------------
\* lambda_handler (lines 31-87)
\* ------------------------------------------------------------------------
Modes == {"all", "historical", "incremental", "other"}

Tagged(infos, type) == [i \in 1..Len(infos) |-> [info |-> infos[i], type |-> type]]

\* the incremental datasets are processed before the historical ones
SelectedIncrementalFirst(mode) ==
    (IF mode \in {"all", "incremental"} THEN Tagged(DATASETS.incremental, "incremental")
     ELSE <<>>)
    \o (IF mode \in {"all", "historical"} THEN Tagged(DATASETS.historical, "historical")
        ELSE <<>>)

\* lines 49-61: the two for-loops, in order
Selected(mode) ==
    (IF mode \in {"all", "historical"} THEN Tagged(DATASETS.historical, "historical")
     ELSE <<>>)
    \o (IF mode \in {"all", "incremental"} THEN Tagged(DATASETS.incremental, "incremental")
        ELSE <<>>)

CountStatus(rs, status) == Cardinality({i \in 1..Len(rs) : rs[i].status = status})

\* lines 63-81
Summary(mode, rs) ==
    [statusCode |-> 200,
     body |-> [message |-> "ETL pipeline completed (mode: " \o mode \o ")",
               summary |-> [mode |-> mode,
                            total_datasets |-> Len(rs),
                            processed |-> CountStatus(rs, "processed"),
                            skipped |-> CountStatus(rs, "skipped"),
                            errors |-> CountStatus(rs, "error")],
               details |-> rs]]

NoSummary ==
    [statusCode |-> 0,
     body |-> [message |-> "",
               summary |-> [mode |-> "", total_datasets |-> 0, processed |-> 0,
                            skipped |-> 0, errors |-> 0],
               details |-> <<>>]]

IncrementalIds == {DATASETS.incremental[i].id : i \in 1..Len(DATASETS.incremental)}
IncrementalNames == {DATASETS.incremental[i].name : i \in 1..Len(DATASETS.incremental)}
HistoricalNames == {DATASETS.historical[i].name : i \in 1..Len(DATASETS.historical)}
DatasetNames == HistoricalNames \cup IncrementalNames

\* what the upstream holds for a dataset when the handler runs
UpstreamTotals(id) ==
    IF id \in IncrementalIds THEN {750 * k : k \in 0..MaxGrowth} ELSE {1500}

\* line 363: datetime.now().strftime('%Y%m%d_%H%M%S')
strftime(t) == ToString(t)

Timestamps == {strftime(t) : t \in 1..MaxRuns}

\* every way the fetch of a dataset can end when the handler runs
FetchOutcomes ==
    [id \in {DATASETS.historical[i].id : i \in 1..Len(DATASETS.historical)}
            \cup IncrementalIds |->
        UNION {fetch_all_records(id, total) : total \in UpstreamTotals(id)}]

\* what the world decides during one process_dataset call; a storage call the
\* dataset type never makes is left answered
Envs(id, type, ts) ==
    {[listOk |-> l, fetch |-> f, getOk |-> g, putRawOk |-> pr, putHashOk |-> ph,
      timestamp |-> ts] :
        l \in IF type = "historical" THEN BOOLEAN ELSE {TRUE},
        g \in IF type = "incremental" THEN BOOLEAN ELSE {TRUE},
        pr \in BOOLEAN, ph \in BOOLEAN,
        f \in FetchOutcomes[id]}

\* the failures an env holds
EnvFaults(env) ==
    Cardinality({f \in {<<1, env.listOk>>, <<2, env.getOk>>, <<3, env.putRawOk>>,
                        <<4, env.putHashOk>>} : ~f[2]})
    + (IF env.fetch.status = "raise" THEN 1 ELSE 0)

Unanswered(calls) == Cardinality({i \in 1..Len(calls) : ~calls[i].ok})

FaultsIn(out) == Unanswered(out.calls) + (IF out.fetch.status = "raise" THEN 1 ELSE 0)

\* what is kept of an earlier call for the same dataset
NoEarlier == [status |-> "", csv |-> "", fresh |-> FALSE, working |-> FALSE]

Earlier(r) ==
    [status |-> r.status, csv |-> r.csv, fresh |-> r.stored = None,
     working |-> Unanswered(r.calls) = 0]

\* the keys whose object is new or has a new body
Written(before, after) ==
    {k \in DOMAIN after : k \notin DOMAIN before \/ after[k] # before[k]}

\* history record of one process_dataset call: `stored` is the fingerprint object
\* of the dataset when the call began, `earlier` the call for the same
\* incremental dataset that ended before this one began
NoRun ==
    [dataset |-> "", type |-> "", status |-> "", stored |-> None, calls |-> <<>>,
     fetch |-> "none", collected |-> 0, csv |-> "", written |-> {},
     earlier |-> NoEarlier]

RunOf(item, bucket, out, earlier) ==
    [dataset |-> item.info.name, type |-> item.type, status |-> out.result.status,
     stored |-> get_last_hash_from_s3(bucket, item.info.name, TRUE),
     calls |-> out.calls, fetch |-> out.fetch.status, collected |-> out.fetch.collected,
     csv |-> out.csv, written |-> Written(bucket, out.bucket), earlier |-> earlier]

NoProbe == [fn |-> "", name |-> "", type |-> "", hash |-> "", ok |-> TRUE, ret |-> FALSE]

\* lambda_handler(event, context) is invoked: lines 44-46
HandlerCall ==
    /\ hpc = "idle"
    /\ now < MaxRuns
    /\ \E mode \in Modes :
          /\ process_mode' = mode
          /\ todo' = Selected(mode)
    /\ hpc' = "running"
    /\ results' = <<>>
    /\ now' = now + 1
    /\ UNCHANGED <<s3, summary, run, incrLast, faults, probe>>
    /\ UNCHANGED <<fetchVars, frameVars>>

\* the for-loops stop at the first dataset that ends in error
RemainingUntilError(items, result) ==
    IF result.status = "error" THEN <<>> ELSE Tail(items)

\* lines 52-54, 59-61: the loop goes on to the next dataset whatever the result
Remaining(items, result) == Tail(items)

\* one pass of a for-loop: process_dataset on the next dataset, the result appended
ProcessNext ==
    /\ hpc = "running"
    /\ todo # <<>>
    /\ \E env \in {e \in Envs(Head(todo).info.id, Head(todo).type, strftime(now)) :
                         faults + EnvFaults(e) <= MaxFaults} :
          LET item == Head(todo)
              name == item.info.name
              out == process_dataset(s3, item.info, item.type, env)
              earlier == IF item.type = "incremental" THEN incrLast[name] ELSE NoEarlier
              this == RunOf(item, s3, out, earlier)
          IN  /\ faults + FaultsIn(out) <= MaxFaults
              /\ faults' = faults + FaultsIn(out)
              /\ s3' = out.bucket
              /\ results' = Append(results, out.result)
              /\ run' = this
              /\ incrLast' = IF item.type = "incremental"
                             THEN [incrLast EXCEPT ![name] = Earlier(this)]
                             ELSE incrLast
              /\ todo' = Remaining(todo, out.result)
    /\ UNCHANGED <<hpc, process_mode, summary, now, probe>>
    /\ UNCHANGED <<fetchVars, frameVars>>

\* lines 63-87: the summary is returned
HandlerReturn ==
    /\ hpc = "running"
    /\ todo = <<>>
    /\ summary' = Summary(process_mode, results)
    /\ hpc' = "returned"
    /\ UNCHANGED <<s3, process_mode, todo, results, run, incrLast, faults, now, probe>>
    /\ UNCHANGED <<fetchVars, frameVars>>

\* the invocation is over: its locals and its return value are gone
HandlerExit ==
    /\ hpc = "returned"
    /\ hpc' = "idle"
    /\ process_mode' = ""
    /\ results' = <<>>
    /\ summary' = NoSummary
    /\ run' = NoRun
    /\ UNCHANGED <<s3, todo, incrLast, faults, now, probe>>
    /\ UNCHANGED <<fetchVars, frameVars>>

\* ------------------------------------------------------------------------
\* The storage-reading helpers called directly, on any bucket
\* ------------------------------------------------------------------------
ProbeNames == {DATASETS.historical[1].name, DATASETS.historical[3].name}
                  \cup IncrementalNames

ProbeHashes == {"", calculate_hash(to_csv(<<>>)), calculate_hash("csv")}

\* the objects a sample bucket may hold: fingerprints (blank ones too) and raw
\* snapshots of some datasets
SampleObjects ==
    {<<MetadataKey(n), h>> : n \in IncrementalNames, h \in ProbeHashes}
    \cup {<<MetadataKey(DATASETS.historical[1].name), calculate_hash("csv")>>}
    \cup {<<RawKey(n, ts), "csv">> : n \in ProbeNames, ts \in Timestamps}

RECURSIVE PutAll(_, _)
PutAll(bucket, objects) ==
    IF objects = {} THEN bucket
    ELSE LET o == CHOOSE x \in objects : TRUE
         IN  PutAll(put_object(bucket, o[1], o[2]), objects \ {o})

SampleBuckets ==
    {PutAll(EmptyBucket, objs) : objs \in {x \in SUBSET SampleObjects : Cardinality(x) <= 2}}

\* should_process_dataset(dataset_name, current_hash)
ProbeShouldProcess ==
    /\ \E name \in ProbeNames, h \in ProbeHashes, ok \in BOOLEAN :
          probe' = [fn |-> "should_process_dataset", name |-> name, type |-> "",
                    hash |-> h, ok |-> ok,
                    ret |-> should_process_dataset(s3, name, h, ok)]
    /\ UNCHANGED <<s3, hpc, process_mode, todo, results, summary, run, incrLast, faults, now>>
    /\ UNCHANGED <<fetchVars, frameVars>>

\* check_if_already_downloaded(dataset_name, dataset_type)
ProbeAlreadyDownloaded ==
    /\ \E name \in ProbeNames, type \in {"historical", "incremental"}, ok \in BOOLEAN :
          probe' = [fn |-> "check_if_already_downloaded", name |-> name, type |-> type,
                    hash |-> "", ok |-> ok,
                    ret |-> check_if_already_downloaded(s3, name, type, ok)]
    /\ UNCHANGED <<s3, hpc, process_mode, todo, results, summary, run, incrLast, faults, now>>
    /\ UNCHANGED <<fetchVars, frameVars>>

\* ------------------------------------------------------------------------
\* Transformation layer (transformation_layer.py): DataFrames
\* ------------------------------------------------------------------------
\* A cell is null (NaN, None, NaT, <NA>), a number, a quotient of two numbers
\* that has not been rounded, or a string, held as the sequence of its
\* characters; a row maps the columns of its frame to cells; a frame has its
\* columns, its rows in order and the columns whose dtype is float64 because
\* every cell was null when the CSV was read, and the columns whose dtype is
\* datetime64. The result of a stage carries, in
\* `caller`, the frame object the caller passed in as it is after the call.
Null == [k |-> "null", n |-> 0, s |-> <<>>]
Num(x) == [k |-> "num", n |-> x, s |-> <<>>]
Str(t) == [k |-> "str", n |-> 0, s |-> t]
Quot(x, y) == [k |-> "quot", n |-> x, s |-> <<y>>]
\* a number rounded to two decimals, in hundredths
Dec(h) == [k |-> "dec", n |-> h, s |-> <<>>]
\* a month of a year, as year * 100 + month
Date(ym) == [k |-> "date", n |-> ym, s |-> <<>>]

IsNull(c) == c.k = "null"

\* line 541, line 708: datetime.now().year
current_year == 2025

\* the columns of the raw CSV files (docstring of standardize_schema, lines 338-342)
RawColumns ==
    {"id", "month", "town", "flat_type", "block", "street_name", "storey_range",
     "floor_area_sqm", "flat_model", "lease_commence_date", "resale_price",
     "remaining_lease"}

\* a sale that passes every check
BaseRow ==
    [c \in RawColumns |->
        CASE c = "id" -> Num(1)
          [] c = "month" -> Str(<<"2", "0", "1", "7", "-", "0", "1">>)
          [] c = "town" -> Str(<<"B", "E", "D", "O", "K">>)
          [] c = "flat_type" -> Str(<<"3", " ", "R", "O", "O", "M">>)
          [] c = "block" -> Str(<<"1", "7", "4">>)
          [] c = "street_name" -> Str(<<"A", "V", "E", " ", "4">>)
          [] c = "storey_range" -> Str(<<"0", "1", " ", "T", "O", " ", "0", "3">>)
          [] c = "floor_area_sqm" -> Num(60)
          [] c = "flat_model" -> Str(<<"I", "m", "p", "r", "o", "v", "e", "d">>)
          [] c = "lease_commence_date" -> Num(1986)
          [] c = "resale_price" -> Num(300000)
          [] OTHER -> Str(<<"6", "1", " ", "y", "e", "a", "r", "s">>)]

\* the rows the sample frames are made of: the sale above, and sales that
\* differ from it in a few cells
RowKinds ==
    {"base", "null_town", "null_model", "cheap", "basement", "lower_to", "null_storey"}

SampleRow(kind) ==
    CASE kind = "base" -> BaseRow
      [] kind = "null_town" -> [BaseRow EXCEPT !["id"] = Num(3), !["town"] = Null]
      [] kind = "null_model" -> [BaseRow EXCEPT !["id"] = Num(4), !["flat_model"] = Null,
                                                  !["remaining_lease"] = Null]
      [] kind = "cheap" -> [BaseRow EXCEPT !["id"] = Num(5), !["resale_price"] = Num(40000),
                                             !["floor_area_sqm"] = Num(30)]
      [] kind = "basement" ->
             [BaseRow EXCEPT !["id"] = Num(7),
                             !["storey_range"] = Str(<<"B", "1", " ", "t", "0", " ", "B", "2">>)]
      [] kind = "lower_to" ->
             [BaseRow EXCEPT !["id"] = Num(8),
                             !["storey_range"] = Str(<<"0", "4", " ", "t", "o", " ", "0", "6">>),
                             !["lease_commence_date"] = Num(current_year)]
      [] kind = "padded_storey" ->
             [BaseRow EXCEPT !["id"] = Num(10),
                             !["storey_range"] =
                                 Str(<<" ", "0", "7", " ", " ", "T", "O", " ", "0", "9", " ">>)]
      [] kind = "old_lease" ->
             [BaseRow EXCEPT !["id"] = Num(13), !["lease_commence_date"] = Num(1920),
                             !["remaining_lease"] = Null]
      [] kind = "upper_model" ->
             [BaseRow EXCEPT !["flat_model"] = Str(<<"I", "M", "P", "R", "O", "V", "E", "D">>)]
      [] kind = "lower_town" ->
             [BaseRow EXCEPT !["id"] = Num(11), !["town"] = Str(<<"b", "e", "d", "o", "k">>)]
      [] kind = "whampoa" ->
             [BaseRow EXCEPT !["id"] = Num(12),
                             !["town"] = Str(<<"K", "A", "L", "L", "A", "N", "G", "/",
                                               "W", "H", "A", "M", "P", "O", "A">>)]
      [] OTHER -> [BaseRow EXCEPT !["id"] = Num(9), !["storey_range"] = Null]

\* sales whose texts differ from the base sale in blanks or letter case only, or
\* whose town is written as the estate list writes it, or whose lease began more
\* than 99 years ago
EdgeKinds ==
    {"base", "null_model", "old_lease", "padded_storey", "upper_model", "lower_town", "whampoa"}

\* single sales at and around the limits of the validation rules
GridRows ==
    {[BaseRow EXCEPT !["resale_price"] = p, !["floor_area_sqm"] = a,
                     !["lease_commence_date"] = l, !["storey_range"] = st] :
        p \in {Null, Num(49999), Num(50000), Num(2500000), Num(2500001)},
        a \in {Null, Num(19), Num(20), Num(400), Num(401)},
        l \in {Null, Num(1959), Num(1960), Num(current_year), Num(current_year + 1)},
        st \in {Null, Str(<<"T", "o">>), Str(<<"O", "T">>)}}

\* the column sets of the sample files: every column, the files of the years
\* without remaining_lease, files that lack another column
ColumnSets ==
    {RawColumns, RawColumns \ {"remaining_lease"}, RawColumns \ {"flat_model", "id"},
     RawColumns \ {"month", "remaining_lease"}}

Restrict(row, columns) == [c \in columns |-> row[c]]

\* lines 963-964: pd.read_csv gives a column without any value the dtype float64
read_csv(columns, rows) ==
    [columns |-> columns,
     rows |-> [i \in 1..Len(rows) |-> Restrict(rows[i], columns)],
     floating |-> {c \in columns : rows # <<>> /\ \A i \in 1..Len(rows) : IsNull(rows[i][c])},
     datetime |-> {}]

\* the files read: up to MaxRows sales with all columns, shorter files that lack
\* columns, the single sales of the grid, and a file without a header line
SampleFrames ==
    UNION {{read_csv(columns, [i \in 1..Len(kinds) |-> SampleRow(kinds[i])]) :
               kinds \in UNION {[1..n -> RowKinds] :
                                   n \in 0..(IF columns = RawColumns THEN MaxRows
                                                                      ELSE MaxRows - 1)}} :
           columns \in ColumnSets}
    \cup {read_csv(RawColumns, <<row>>) : row \in GridRows}
    \cup {read_csv(RawColumns, [i \in 1..Len(kinds) |-> SampleRow(kinds[i])]) :
             kinds \in UNION {[1..n -> EdgeKinds] : n \in 1..(MaxRows - 1)}}
    \cup {read_csv({}, <<>>)}

NoFrame == [columns |-> {}, rows |-> <<>>, floating |-> {}, datetime |-> {}]

NoOut == [fn |-> "", status |-> ""]

FrameIdle == frame = NoFrame /\ tout = NoOut /\ processed = EmptyBucket

\* df[c] = values for every c of `columns`: added[i][c] is the value in row i.
\* The frame and the values are evaluated once.
Assign(df, columns, added) ==
    CHOOSE out \in
        {[columns |-> d.columns \cup columns,
          rows |-> [i \in DOMAIN d.rows |->
                      [c \in d.columns \cup columns |->
                          IF c \in columns THEN a[i][c] ELSE d.rows[i][c]]],
          floating |-> d.floating \ columns,
          datetime |-> d.datetime \ columns] : d \in {df}, a \in {added}} : TRUE

\* lines 344-350
standardize_schema(df) ==
    IF "remaining_lease" \notin df.columns
    THEN Assign(df, {"remaining_lease"}, [i \in DOMAIN df.rows |-> [remaining_lease |-> Null]])
    ELSE df

\* df[mask]: the rows whose index is in `keep`, in order
Take(df, keep) ==
    [df EXCEPT !.rows =
        [k \in 1..Cardinality(keep) |->
            df.rows[CHOOSE i \in keep : Cardinality({j \in keep : j <= i}) = k]]]

\* the row repeats a row that comes after it
duplicated_keep_last(df) ==
    [i \in 1..Len(df.rows) |-> \E j \in (i+1)..Len(df.rows) : df.rows[j] = df.rows[i]]

\* line 428: df.duplicated(): the row repeats a row that comes before it (a null
\* cell equals a null cell)
duplicated(df) ==
    [i \in 1..Len(df.rows) |-> \E j \in 1..(i-1) : df.rows[j] = df.rows[i]]

\* line 431
drop_duplicates(df) == Take(df, {i \in 1..Len(df.rows) : ~duplicated(df)[i]})

\* lines 427-434
remove_duplicates(df) ==
    [df |-> drop_duplicates(df),
     count |-> Cardinality({i \in 1..Len(df.rows) : duplicated(df)[i]})]

\* remove_duplicates(df) is called
RemoveDuplicates ==
    /\ tout = NoOut
    /\ tout' = [fn |-> "remove_duplicates", status |-> "return",
                df |-> remove_duplicates(frame).df,
                count |-> remove_duplicates(frame).count, caller |-> frame]
    /\ UNCHANGED <<frame, processed, fetchVars, pipeVars>>

\* the optional field flat_model is taken for a critical one
critical_fields_with_model ==
    {"resale_price", "town", "flat_type", "floor_area_sqm", "month", "flat_model"}

\* line 480
critical_fields == {"resale_price", "town", "flat_type", "floor_area_sqm", "month"}

\* line 474: df.isnull().sum().to_dict()
null_counts(df) ==
    [c \in df.columns |-> Cardinality({i \in 1..Len(df.rows) : IsNull(df.rows[i][c])})]

\* line 484: df.dropna(subset=...), which raises KeyError for a label that is
\* not a column
dropna(df, subset) ==
    Take(df, {i \in 1..Len(df.rows) : \A c \in subset : ~IsNull(df.rows[i][c])})

\* every row with a null in any column is counted as removed
handle_nulls_counting_any_null(df) ==
    IF ~(critical_fields \subseteq df.columns)
    THEN [status |-> "raise", exc |-> "KeyError", caller |-> df]
    ELSE [status |-> "return", exc |-> "", caller |-> df,
          df |-> dropna(df, critical_fields),
          rows_removed |-> Len(df.rows) - Len(dropna(df, df.columns).rows),
          null_counts |-> null_counts(df)]

\* lines 473-490
handle_nulls(df) ==
    IF ~(critical_fields \subseteq df.columns)
    THEN [status |-> "raise", exc |-> "KeyError", caller |-> df]
    ELSE [status |-> "return", exc |-> "", caller |-> df,
          df |-> dropna(df, critical_fields),
          rows_removed |-> Len(df.rows) - Len(dropna(df, critical_fields).rows),
          null_counts |-> null_counts(df)]

\* handle_nulls(df) is called
HandleNulls ==
    /\ tout = NoOut
    /\ tout' = [fn |-> "handle_nulls"] @@ handle_nulls(frame)
    /\ UNCHANGED <<frame, processed, fetchVars, pipeVars>>

\* str.upper() on one character
upper(ch) ==
    LET lower_case == <<"a", "b", "c", "d", "e", "f", "g", "h", "i", "j", "k", "l", "m",
                        "n", "o", "p", "q", "r", "s", "t", "u", "v", "w", "x", "y", "z">>
        upper_case == <<"A", "B", "C", "D", "E", "F", "G", "H", "I", "J", "K", "L", "M",
                        "N", "O", "P", "Q", "R", "S", "T", "U", "V", "W", "X", "Y", "Z">>
    IN  IF \E i \in 1..26 : lower_case[i] = ch
        THEN upper_case[CHOOSE i \in 1..26 : lower_case[i] = ch]
        ELSE ch

\* line 561: Series.str.contains(pat, case=False, na=False) for a pattern of
\* plain upper-case characters
str_contains(cell, pat) ==
    /\ ~IsNull(cell)
    /\ \E i \in 1..(Len(cell.s) - Len(pat) + 1) :
          \A j \in 1..Len(pat) : upper(cell.s[i + j - 1]) = pat[j]

\* lines 544-564: the five masks and their conjunction. A comparison with a null
\* operand is not true; a division by zero gives inf or nan, which is in no range.
all_valid(row) ==
    LET between(cell, lo, hi) == ~IsNull(cell) /\ cell.n >= lo /\ cell.n <= hi
        valid_price == between(row["resale_price"], 50000, 2500000)
        valid_area == between(row["floor_area_sqm"], 20, 400)
        valid_price_per_sqm ==
            /\ ~IsNull(row["resale_price"]) /\ ~IsNull(row["floor_area_sqm"])
            /\ row["floor_area_sqm"].n > 0
            /\ row["resale_price"].n >= 1000 * row["floor_area_sqm"].n
            /\ row["resale_price"].n <= 20000 * row["floor_area_sqm"].n
        valid_lease_date == between(row["lease_commence_date"], 1960, current_year)
        valid_storey == str_contains(row["storey_range"], <<"T", "O">>)
    IN  valid_price /\ valid_area /\ valid_price_per_sqm /\ valid_lease_date /\ valid_storey

\* lines 537-575. A column that is read must exist (KeyError); line 544 adds the
\* quotient to the caller's frame; the .str accessor of line 561 raises
\* AttributeError on a float64 column; lines 567-570 build a new frame.
validate_hdb_data(df) ==
    LET price_per_sqm_temp(row) ==
            IF IsNull(row["resale_price"]) \/ IsNull(row["floor_area_sqm"])
            THEN Null
            ELSE Quot(row["resale_price"].n, row["floor_area_sqm"].n)
        with_temp ==
            Assign(df, {"price_per_sqm_temp"},
                   [i \in DOMAIN df.rows |->
                       [price_per_sqm_temp |-> price_per_sqm_temp(df.rows[i])]])
    IN  CASE ~({"resale_price", "floor_area_sqm"} \subseteq df.columns) ->
               [status |-> "raise", exc |-> "KeyError", caller |-> df]
          [] ~({"lease_commence_date", "storey_range"} \subseteq df.columns) ->
               [status |-> "raise", exc |-> "KeyError", caller |-> with_temp]
          [] "storey_range" \in df.floating ->
               [status |-> "raise", exc |-> "AttributeError", caller |-> with_temp]
          [] OTHER ->
               LET kept == Take(df, {i \in 1..Len(df.rows) : all_valid(df.rows[i])})
               IN  [status |-> "return", exc |-> "", caller |-> with_temp, df |-> kept,
                    rows_removed |-> Len(df.rows) - Len(kept.rows)]

\* validate_hdb_data(df) is called
ValidateHdbData ==
    /\ tout = NoOut
    /\ tout' = [fn |-> "validate_hdb_data"] @@ validate_hdb_data(frame)
    /\ UNCHANGED <<frame, processed, fetchVars, pipeVars>>

\* round(x / y, 2) in hundredths, for x >= 0 and y > 0, by long division so that
\* no intermediate value leaves 32 bits. A quotient exactly half way between two
\* hundredths does not occur among the sample values.
Round2(x, y) ==
    LET r == x % y
        c == (r * 100) \div y
        r1 == (r * 100) % y
    IN  (x \div y) * 100 + c + (IF 2 * r1 >= y THEN 1 ELSE 0)

\* lines 645-654: the three columns are added to the caller's frame, which is
\* the object returned; a null operand gives a null result
derive_price_metrics(df) ==
    LET known(row) == ~IsNull(row["resale_price"]) /\ ~IsNull(row["floor_area_sqm"])
        sqft(row) == (row["floor_area_sqm"].n * 10764 + 5) \div 10
        metrics(row) ==
            [price_per_sqm |->
                 IF known(row)
                 THEN Dec(Round2(row["resale_price"].n, row["floor_area_sqm"].n))
                 ELSE Null,
             floor_area_sqft |->
                 IF IsNull(row["floor_area_sqm"]) THEN Null ELSE Dec(sqft(row)),
             price_per_sqft |->
                 IF known(row)
                 THEN Dec(Round2(100 * row["resale_price"].n, sqft(row)))
                 ELSE Null]
        out == Assign(df, {"price_per_sqm", "floor_area_sqft", "price_per_sqft"},
                      [i \in DOMAIN df.rows |-> metrics(df.rows[i])])
    IN  IF ~({"resale_price", "floor_area_sqm"} \subseteq df.columns)
        THEN [status |-> "raise", exc |-> "KeyError", caller |-> df]
        ELSE [status |-> "return", exc |-> "", caller |-> out, df |-> out]

\* str.strip(): leading and trailing blanks are removed
strip(chars) ==
    LET inked == {i \in 1..Len(chars) : chars[i] # " "}
    IN  IF inked = {} THEN <<>>
        ELSE SubSeq(chars, CHOOSE i \in inked : \A j \in inked : i <= j,
                           CHOOSE i \in inked : \A j \in inked : i >= j)

\* int(text) for a text of decimal digits; any other text is refused (ValueError),
\* given here as null
to_int(chars) ==
    LET digits == <<"0", "1", "2", "3", "4", "5", "6", "7", "8", "9">>
        digit(ch) == (CHOOSE d \in 1..10 : digits[d] = ch) - 1
        value[n \in 0..Len(chars)] ==
            IF n = 0 THEN 0 ELSE value[n-1] * 10 + digit(chars[n])
    IN  IF chars # <<>> /\ \A i \in 1..Len(chars) : \E d \in 1..10 : digits[d] = chars[i]
        THEN Num(value[Len(chars)])
        ELSE Null

\* line 384: pd.to_datetime(errors='coerce') of one value: a text 'YYYY-MM' is
\* that month, a number is counted in nanoseconds from 1970, and a text that is
\* no date is NaT. Other spellings of a date are not among the sample values.
to_datetime(cell) ==
    CASE IsNull(cell) -> Null
      [] cell.k = "date" -> cell
      [] cell.k = "str" ->
           IF Len(cell.s) = 7 /\ cell.s[5] = "-"
              /\ ~IsNull(to_int(SubSeq(cell.s, 1, 4))) /\ ~IsNull(to_int(SubSeq(cell.s, 6, 7)))
              /\ to_int(SubSeq(cell.s, 6, 7)).n \in 1..12
           THEN Date(to_int(SubSeq(cell.s, 1, 4)).n * 100 + to_int(SubSeq(cell.s, 6, 7)).n)
           ELSE Null
      [] OTHER -> Date(197001)

\* lines 383-397: the four columns are converted one after the other in the
\* caller's frame, which is the object returned; a column that is missing raises
\* KeyError when its turn comes. pd.to_numeric(errors='coerce') keeps a number
\* and reads a text.
convert_data_types(df) ==
    LET to_numeric(cell) == IF cell.k = "str" THEN to_int(strip(cell.s)) ELSE cell
        converted(columns) ==
            [Assign(df, columns,
                    [i \in DOMAIN df.rows |->
                        [c \in columns |->
                            IF c = "month" THEN to_datetime(df.rows[i][c])
                            ELSE to_numeric(df.rows[i][c])]])
                EXCEPT !.datetime = @ \cup {"month"}]
        KeyError(at) == [status |-> "raise", exc |-> "KeyError", caller |-> at]
        all == converted({"month", "resale_price", "floor_area_sqm", "lease_commence_date"})
    IN  CASE "month" \notin df.columns -> KeyError(df)
          [] "resale_price" \notin df.columns -> KeyError(converted({"month"}))
          [] "floor_area_sqm" \notin df.columns ->
               KeyError(converted({"month", "resale_price"}))
          [] "lease_commence_date" \notin df.columns ->
               KeyError(converted({"month", "resale_price", "floor_area_sqm"}))
          [] OTHER -> [status |-> "return", exc |-> "", caller |-> all, df |-> all]

\* lines 606-614: the .dt accessor raises AttributeError on a column that is not
\* of dtype datetime64
derive_time_fields(df) ==
    LET fields(month) ==
            IF IsNull(month)
            THEN [year |-> Null, month_num |-> Null, quarter |-> Null]
            ELSE [year |-> Num(month.n \div 100),
                  month_num |-> Num(month.n % 100),
                  quarter |-> Num((((month.n % 100) - 1) \div 3) + 1)]
        out == Assign(df, {"year", "month_num", "quarter"},
                      [i \in DOMAIN df.rows |-> fields(df.rows[i]["month"])])
    IN  CASE "month" \notin df.columns ->
               [status |-> "raise", exc |-> "KeyError", caller |-> df]
          [] "month" \notin df.datetime ->
               [status |-> "raise", exc |-> "AttributeError", caller |-> df]
          [] OTHER -> [status |-> "return", exc |-> "", caller |-> out, df |-> out]

\* lines 665-678: the text is split at every 'TO' in upper case; with exactly two
\* parts, both integers once stripped, they are the result, and in every other
\* case, a null value included, the result is (None, None)
parse_storey_range(storey_str) ==
    LET text == storey_str.s
        at == {i \in 1..(Len(text) - 1) : text[i] = "T" /\ text[i+1] = "O"}
        i == CHOOSE j \in at : TRUE
        lower == to_int(strip(SubSeq(text, 1, i - 1)))
        upper_part == to_int(strip(SubSeq(text, i + 2, Len(text))))
    IN  IF IsNull(storey_str) \/ Cardinality(at) # 1 THEN <<Null, Null>>
        ELSE IF IsNull(lower) \/ IsNull(upper_part) THEN <<Null, Null>>
        ELSE <<lower, upper_part>>

\* a check that finds no remaining lease in any frame
has_remaining_lease_never(df) == FALSE

\* line 728: df['remaining_lease'].notna().any()
has_remaining_lease(df) ==
    \E i \in 1..Len(df.rows) : ~IsNull(df.rows[i]["remaining_lease"])

\* lines 708-738: the columns are added one after the other to the caller's
\* frame, which is the object returned. Line 713 raises ValueError on a frame
\* without rows (apply gives an empty Series, not two columns). When no row has a
\* storey that can be parsed, the two storey columns hold None with dtype object,
\* and on older pandas releases Series.round of line 718 raises TypeError for
\* such a column while newer ones leave it alone: `round_raises` says which.
derive_property_characteristics(df, round_raises) ==
    LET digits == <<"0", "1", "2", "3", "4", "5", "6", "7", "8", "9">>
        to_str[n \in 0..99] ==
            IF n < 10 THEN <<digits[n + 1]>>
            ELSE Append(to_str[n \div 10], digits[(n % 10) + 1])
        lease_age(row) ==
            IF IsNull(row["lease_commence_date"]) THEN Null
            ELSE Num(current_year - row["lease_commence_date"].n)
        estimated_remaining_lease(row) ==
            IF IsNull(lease_age(row)) THEN Null ELSE Num(99 - lease_age(row).n)
        value(row, column) ==
            CASE column = "storey_lower" -> parse_storey_range(row["storey_range"])[1]
              [] column = "storey_upper" -> parse_storey_range(row["storey_range"])[2]
              [] column = "storey_median" ->
                   IF IsNull(parse_storey_range(row["storey_range"])[1]) THEN Null
                   ELSE Dec((parse_storey_range(row["storey_range"])[1].n
                               + parse_storey_range(row["storey_range"])[2].n) * 50)
              [] column = "lease_age" -> lease_age(row)
              [] column = "flat_age_at_sale" ->
                   IF IsNull(row["year"]) \/ IsNull(row["lease_commence_date"]) THEN Null
                   ELSE Num(row["year"].n - row["lease_commence_date"].n)
              [] column = "estimated_remaining_lease" -> estimated_remaining_lease(row)
              [] OTHER ->
                   IF ~IsNull(estimated_remaining_lease(row))
                      /\ estimated_remaining_lease(row).n > 0
                   THEN Str(to_str[estimated_remaining_lease(row).n]
                               \o <<" ", "y", "e", "a", "r", "s">>)
                   ELSE Null
        with(columns) ==
            Assign(df, columns,
                   [i \in DOMAIN df.rows |-> [c \in columns |-> value(df.rows[i], c)]])
        storeys == {"storey_lower", "storey_upper"}
        derived == storeys \cup {"storey_median", "lease_age", "flat_age_at_sale"}
        out == IF has_remaining_lease(df)
               THEN with(derived)
               ELSE with(derived \cup {"estimated_remaining_lease", "remaining_lease"})
        raise(exc, at) == [status |-> "raise", exc |-> exc, caller |-> at]
    IN  CASE "storey_range" \notin df.columns -> raise("KeyError", df)
          [] df.rows = <<>> -> raise("ValueError", df)
          [] round_raises
             /\ \A i \in 1..Len(df.rows) :
                   IsNull(parse_storey_range(df.rows[i]["storey_range"])[1]) ->
               raise("TypeError", with(storeys))
          [] "lease_commence_date" \notin df.columns ->
               raise("KeyError", with(storeys \cup {"storey_median"}))
          [] "year" \notin df.columns ->
               raise("KeyError", with(storeys \cup {"storey_median", "lease_age"}))
          [] "remaining_lease" \notin df.columns -> raise("KeyError", with(derived))
          [] OTHER -> [status |-> "return", exc |-> "", caller |-> out, df |-> out]

\* lines 36-71: town and region, pair by pair
REGION_MAPPING ==
    <<<<<<"B", "I", "S", "H", "A", "N">>,
        <<"C", "e", "n", "t", "r", "a", "l">>>>,
      <<<<"B", "U", "K", "I", "T", " ", "M", "E", "R", "A", "H">>,
        <<"C", "e", "n", "t", "r", "a", "l">>>>,
      <<<<"B", "U", "K", "I", "T", " ", "T", "I", "M", "A", "H">>,
        <<"C", "e", "n", "t", "r", "a", "l">>>>,
      <<<<"C", "E", "N", "T", "R", "A", "L", " ", "A", "R", "E", "A">>,
        <<"C", "e", "n", "t", "r", "a", "l">>>>,
      <<<<"G", "E", "Y", "L", "A", "N", "G">>,
        <<"C", "e", "n", "t", "r", "a", "l">>>>,
      <<<<"W", "H", "A", "M", "P", "O", "A">>,
        <<"C", "e", "n", "t", "r", "a", "l">>>>,
      <<<<"Q", "U", "E", "E", "N", "S", "T", "O", "W", "N">>,
        <<"C", "e", "n", "t", "r", "a", "l">>>>,
      <<<<"T", "O", "A", " ", "P", "A", "Y", "O", "H">>,
        <<"C", "e", "n", "t", "r", "a", "l">>>>,
      <<<<"A", "N", "G", " ", "M", "O", " ", "K", "I", "O">>,
        <<"N", "o", "r", "t", "h">>>>,
      <<<<"S", "E", "M", "B", "A", "W", "A", "N", "G">>,
        <<"N", "o", "r", "t", "h">>>>,
      <<<<"W", "O", "O", "D", "L", "A", "N", "D", "S">>,
        <<"N", "o", "r", "t", "h">>>>,
      <<<<"Y", "I", "S", "H", "U", "N">>,
        <<"N", "o", "r", "t", "h">>>>,
      <<<<"H", "O", "U", "G", "A", "N", "G">>,
        <<"N", "o", "r", "t", "h", "-", "E", "a", "s", "t">>>>,
      <<<<"S", "E", "N", "G", "K", "A", "N", "G">>,
        <<"N", "o", "r", "t", "h", "-", "E", "a", "s", "t">>>>,
      <<<<"P", "U", "N", "G", "G", "O", "L">>,
        <<"N", "o", "r", "t", "h", "-", "E", "a", "s", "t">>>>,
      <<<<"S", "E", "R", "A", "N", "G", "O", "O", "N">>,
        <<"N", "o", "r", "t", "h", "-", "E", "a", "s", "t">>>>,
      <<<<"B", "E", "D", "O", "K">>,
        <<"E", "a", "s", "t">>>>,
      <<<<"P", "A", "S", "I", "R", " ", "R", "I", "S">>,
        <<"E", "a", "s", "t">>>>,
      <<<<"T", "A", "M", "P", "I", "N", "E", "S">>,
        <<"E", "a", "s", "t">>>>,
      <<<<"K", "A", "L", "L", "A", "N", "G">>,
        <<"E", "a", "s", "t">>>>,
      <<<<"M", "A", "R", "I", "N", "E", " ", "P", "A", "R", "A", "D", "E">>,
        <<"E", "a", "s", "t">>>>,
      <<<<"B", "U", "K", "I", "T", " ", "B", "A", "T", "O", "K">>,
        <<"W", "e", "s", "t">>>>,
      <<<<"B", "U", "K", "I", "T", " ", "P", "A", "N", "J", "A", "N", "G">>,
        <<"W", "e", "s", "t">>>>,
      <<<<"C", "H", "O", "A", " ", "C", "H", "U", " ", "K", "A", "N", "G">>,
        <<"W", "e", "s", "t">>>>,
      <<<<"C", "L", "E", "M", "E", "N", "T", "I">>,
        <<"W", "e", "s", "t">>>>,
      <<<<"J", "U", "R", "O", "N", "G", " ", "E", "A", "S", "T">>,
        <<"W", "e", "s", "t">>>>,
      <<<<"J", "U", "R", "O", "N", "G", " ", "W", "E", "S", "T">>,
        <<"W", "e", "s", "t">>>>>>

\* lines 74-79
MATURE_ESTATES ==
    {<<"A", "N", "G", " ", "M", "O", " ", "K", "I", "O">>,
     <<"B", "E", "D", "O", "K">>,
     <<"B", "I", "S", "H", "A", "N">>,
     <<"B", "U", "K", "I", "T", " ", "M", "E", "R", "A", "H">>,
     <<"B", "U", "K", "I", "T", " ", "T", "I", "M", "A", "H">>,
     <<"C", "E", "N", "T", "R", "A", "L", " ", "A", "R", "E", "A">>,
     <<"C", "L", "E", "M", "E", "N", "T", "I">>,
     <<"G", "E", "Y", "L", "A", "N", "G">>,
     <<"K", "A", "L", "L", "A", "N", "G", "/", "W", "H", "A", "M", "P", "O", "A">>,
     <<"M", "A", "R", "I", "N", "E", " ", "P", "A", "R", "A", "D", "E">>,
     <<"Q", "U", "E", "E", "N", "S", "T", "O", "W", "N">>,
     <<"S", "E", "R", "A", "N", "G", "O", "O", "N">>,
     <<"T", "A", "M", "P", "I", "N", "E", "S">>,
     <<"T", "O", "A", " ", "P", "A", "Y", "O", "H">>}

\* lines 777-786: the town as it stands in the frame is looked up; a town that
\* is no key of the table, a null one included, gets 'Others' and 'Non-Mature'
derive_location_intelligence(df) ==
    LET region(town) ==
            IF \E i \in 1..Len(REGION_MAPPING) : Str(REGION_MAPPING[i][1]) = town
            THEN Str(REGION_MAPPING[CHOOSE i \in 1..Len(REGION_MAPPING) :
                                        Str(REGION_MAPPING[i][1]) = town][2])
            ELSE Str(<<"O", "t", "h", "e", "r", "s">>)
        estate_maturity(town) ==
            IF \E mature \in MATURE_ESTATES : Str(mature) = town
            THEN Str(<<"M", "a", "t", "u", "r", "e">>)
            ELSE Str(<<"N", "o", "n", "-", "M", "a", "t", "u", "r", "e">>)
        out == Assign(df, {"region", "estate_maturity"},
                      [i \in DOMAIN df.rows |->
                          [region |-> region(df.rows[i]["town"]),
                           estate_maturity |-> estate_maturity(df.rows[i]["town"])]])
    IN  IF "town" \notin df.columns
        THEN [status |-> "raise", exc |-> "KeyError", caller |-> df]
        ELSE [status |-> "return", exc |-> "", caller |-> out, df |-> out]

\* lines 829-836: the text columns that exist are stripped and upper-cased one
\* after the other in the caller's frame, which is the object returned; the .str
\* accessor raises AttributeError on a float64 column, and the columns before it
\* have been rewritten by then
standardize_text(df) ==
    LET text_columns ==
            <<"town", "flat_type", "street_name", "flat_model", "region", "estate_maturity">>
        standard(cell) ==
            IF cell.k = "str"
            THEN Str([i \in 1..Len(strip(cell.s)) |-> upper(strip(cell.s)[i])])
            ELSE Null
        refused == {n \in 1..Len(text_columns) :
                       text_columns[n] \in df.columns \cap df.floating}
        stop == IF refused = {} THEN Len(text_columns) + 1
                ELSE CHOOSE n \in refused : \A m \in refused : n <= m
        rewritten == {text_columns[n] : n \in 1..(stop - 1)} \cap df.columns
        out == Assign(df, rewritten,
                      [i \in DOMAIN df.rows |-> [c \in rewritten |-> standard(df.rows[i][c])]])
    IN  IF refused # {}
        THEN [status |-> "raise", exc |-> "AttributeError", caller |-> out]
        ELSE [status |-> "return", exc |-> "", caller |-> out, df |-> out]

\* the non-null numbers of a column
Values(df, column) ==
    {df.rows[i][column].n : i \in {j \in 1..Len(df.rows) : ~IsNull(df.rows[j][column])}}

\* lines 900-916: Series.min(), .max() and .mean() skip nulls and give NaN when
\* nothing is left
value_range(df, column) ==
    LET known == {i \in 1..Len(df.rows) : ~IsNull(df.rows[i][column])}
        Sum[n \in 0..Len(df.rows)] ==
            IF n = 0 THEN 0
            ELSE Sum[n-1] + (IF n \in known THEN df.rows[n][column].n ELSE 0)
        vs == Values(df, column)
    IN  IF known = {}
        THEN [min |-> Null, max |-> Null, mean |-> Null]
        ELSE [min |-> CHOOSE v \in vs : \A w \in vs : v <= w,
              max |-> CHOOSE v \in vs : \A w \in vs : v >= w,
              mean |-> Quot(Sum[Len(df.rows)], Cardinality(known))]

\* lines 891-936. The score is in hundredths; round(x, 2) of line 930 meets no
\* tie for fewer than 32 original rows. int() of line 902 raises on the NaN (or
\* <NA>) that min() gives for a frame without a price: ValueError for a float
\* column, TypeError for a nullable integer one.
generate_quality_metrics(df_original, df_final, duplicates_removed, nulls_removed, invalid_removed, counts) ==
    LET original_rows == Len(df_original.rows)
        final_rows == Len(df_final.rows)
        price == value_range(df_final, "resale_price")
    IN  CASE "resale_price" \notin df_final.columns ->
               [status |-> "raise", exc |-> "KeyError"]
          [] Values(df_final, "resale_price") = {} ->
               [status |-> "raise",
                exc |-> IF "resale_price" \in df_final.floating \/ final_rows = 0
                        THEN "ValueError" ELSE "TypeError"]
          [] ~({"price_per_sqm", "floor_area_sqm"} \subseteq df_final.columns) ->
               [status |-> "raise", exc |-> "KeyError"]
          [] OTHER ->
               [status |-> "return", exc |-> "",
                original_rows |-> original_rows,
                final_rows |-> final_rows,
                total_removed |-> original_rows - final_rows,
                duplicates_removed |-> duplicates_removed,
                nulls_removed |-> nulls_removed,
                invalid_removed |-> invalid_removed,
                data_quality_score |->
                    IF original_rows > 0
                    THEN Round2(final_rows * 100, original_rows)
                    ELSE 0,
                null_counts |-> counts,
                value_ranges |->
                    [resale_price |->
                         [price EXCEPT !.mean = Num(price.mean.n \div price.mean.s[1])],
                     price_per_sqm |-> value_range(df_final, "price_per_sqm"),
                     floor_area_sqm |-> value_range(df_final, "floor_area_sqm")]]

\* generate_quality_metrics is called for the first `n` rows of a frame as the
\* original and, as the final frame, its first `m` rows with the price metrics
GenerateQualityMetrics ==
    \E n \in 0..Len(frame.rows), m \in 0..Len(frame.rows) :
        /\ tout = NoOut
        /\ {"resale_price", "floor_area_sqm"} \subseteq frame.columns
        /\ \E df_original \in {Take(frame, 1..n)},
              df_final \in {derive_price_metrics(Take(frame, 1..m)).df} :
                tout' = [fn |-> "generate_quality_metrics", n |-> n, m |-> m]
                            @@ generate_quality_metrics(df_original, df_final, 0, 0, n - m,
                                                        null_counts(df_original))
        /\ UNCHANGED <<frame, processed, fetchVars, pipeVars>>

\* lines 1048-1050: what follows 'raw/' up to the first underscore. A key is a
\* sequence of tokens and no configured name holds an underscore.
extract_dataset_name(s3_key) == IF Len(s3_key) >= 2 THEN s3_key[2] ELSE ""

\* lines 963-964: get_object fails for a missing key or a failing service, and
\* pd.read_csv raises EmptyDataError for a body without a header line
read_csv_from_s3(bucket, key, storage) ==
    CASE key \notin DOMAIN bucket \/ storage = "get_fails" ->
           [status |-> "raise", exc |-> "ClientError"]
      [] bucket[key].columns = {} -> [status |-> "raise", exc |-> "EmptyDataError"]
      [] OTHER -> [status |-> "return", exc |-> "", df |-> bucket[key]]

\* lines 1000-1024: the two objects are written one after the other under one
\* timestamp; a put that fails raises, and what was put before stays
save_to_s3(store, df, dataset_name, quality_metrics, timestamp, storage) ==
    LET S3_PROCESSED_PREFIX == "processed/"
        S3_QUALITY_PREFIX == "quality_reports/"
        csv_key == <<S3_PROCESSED_PREFIX, dataset_name, "_clean_", timestamp, ".csv">>
        json_key == <<S3_QUALITY_PREFIX, dataset_name, "_quality_", timestamp, ".json">>
        with_csv == put_object(store, csv_key, df)
    IN  CASE storage = "put_csv_fails" ->
               [status |-> "raise", exc |-> "ClientError", store |-> store]
          [] storage = "put_json_fails" ->
               [status |-> "raise", exc |-> "ClientError", store |-> with_csv]
          [] OTHER ->
               [status |-> "return", exc |-> "",
                store |-> put_object(with_csv, json_key, quality_metrics),
                csv_key |-> csv_key, json_key |-> json_key]

\* lines 219-310: the stages in their order on a copy of the frame read; the
\* first exception ends the call. `progress[n]` is what the call holds after
\* its n-th stage. The result carries the processed bucket as the call leaves it
\* and, for the record, the report once it was generated and the function the
\* exception came from.
transform_dataset(raw, store, key, timestamp, storage, round_raises) ==
    LET call(n, at) ==
            CASE n = 1 -> [status |-> "return", df |-> standardize_schema(at.df)]
              [] n = 2 -> convert_data_types(at.df)
              [] n = 3 -> [status |-> "return"] @@ remove_duplicates(at.df)
              [] n = 4 -> handle_nulls(at.df)
              [] n = 5 -> derive_time_fields(at.df)
              [] n = 6 -> derive_price_metrics(at.df)
              [] n = 7 -> derive_property_characteristics(at.df, round_raises)
              [] n = 8 -> derive_location_intelligence(at.df)
              [] n = 9 -> standardize_text(at.df)
              [] n = 10 -> validate_hdb_data(at.df)
              [] n = 11 ->
                   generate_quality_metrics(at.df_original, at.df, at.duplicates_removed,
                                            at.nulls_removed, at.invalid_removed,
                                            at.null_counts)
              [] OTHER ->
                   save_to_s3(at.store, at.df, extract_dataset_name(key),
                              at.quality_metrics, timestamp, storage)
        stages ==
            <<"standardize_schema", "convert_data_types", "remove_duplicates", "handle_nulls",
              "derive_time_fields", "derive_price_metrics", "derive_property_characteristics",
              "derive_location_intelligence", "standardize_text", "validate_hdb_data",
              "generate_quality_metrics", "save_to_s3">>
        after(n, at, got) ==
            CASE got.status = "raise" ->
                   [at EXCEPT !.status = "raise", !.exc = got.exc, !.raised_in = stages[n],
                              !.store = IF n = 12 THEN got.store ELSE @]
              [] n = 3 -> [at EXCEPT !.df = got.df, !.duplicates_removed = got.count]
              [] n = 4 -> [at EXCEPT !.df = got.df, !.nulls_removed = got.rows_removed,
                                     !.null_counts = got.null_counts]
              [] n = 10 -> [at EXCEPT !.df = got.df, !.invalid_removed = got.rows_removed]
              [] n = 11 -> [at EXCEPT !.quality_metrics = got]
              [] n = 12 -> [at EXCEPT !.store = got.store, !.saved = got]
              [] OTHER -> [at EXCEPT !.df = got.df]
        start(read) ==
            [status |-> read.status, exc |-> read.exc, store |-> store,
             raised_in |-> IF read.status = "raise" THEN "read_csv_from_s3" ELSE "",
             df_original |-> IF read.status = "return" THEN read.df ELSE NoFrame,
             df |-> IF read.status = "return" THEN read.df ELSE NoFrame,
             duplicates_removed |-> 0, nulls_removed |-> 0, invalid_removed |-> 0,
             null_counts |-> <<>>, quality_metrics |-> [status |-> "none"],
             saved |-> [status |-> "none"]]
        progress[n \in 0..12] ==
            IF n = 0
            THEN CHOOSE at \in {start(read) : read \in {read_csv_from_s3(raw, key, storage)}} :
                     TRUE
            ELSE CHOOSE at \in
                     {IF before.status = "raise" THEN before
                      ELSE CHOOSE next \in {after(n, before, got) :
                                              got \in {call(n, before)}} : TRUE :
                         before \in {progress[n-1]}} : TRUE
        result(at) ==
            IF at.status = "raise"
            THEN [status |-> "raise", exc |-> at.exc, raised_in |-> at.raised_in,
                  quality_metrics |-> at.quality_metrics, store |-> at.store]
            ELSE [status |-> "return", exc |-> "",
                  quality_metrics |-> at.quality_metrics, store |-> at.store,
                  df |-> at.df,
                  summary |-> [dataset_name |-> extract_dataset_name(key),
                               original_rows |-> Len(at.df_original.rows),
                               final_rows |-> Len(at.df.rows),
                               quality_score |-> at.quality_metrics.data_quality_score,
                               s3_csv_key |-> at.saved.csv_key,
                               s3_quality_key |-> at.saved.json_key]]
    IN  CHOOSE done \in {result(at) : at \in {progress[12]}} : TRUE

\* lines 118-120: event['Records'][0], then ['s3']['bucket']['name'] and
\* ['s3']['object']['key'] of the record
parse_event(event) ==
    CASE event.shape = "no_records" -> [status |-> "raise", exc |-> "KeyError"]
      [] event.shape = "empty_records" -> [status |-> "raise", exc |-> "IndexError"]
      [] event.shape = "record_is_text" -> [status |-> "raise", exc |-> "TypeError"]
      [] event.shape = "no_object_key" -> [status |-> "raise", exc |-> "KeyError"]
      [] OTHER -> [status |-> "return", exc |-> "", key |-> event.key]

\* the response of lines 150-180 for an exception
error_response(exc) ==
    IF exc = "KeyError"
    THEN [statusCode |-> 400, message |-> "Invalid event structure", error_type |-> ""]
    ELSE [statusCode |-> 500, message |-> "Transformation failed", error_type |-> exc]

\* the key of the raw object the sample event is about
SampleKey == RawKey(DATASETS.incremental[1].name, strftime(1))

\* lambda_handler(event, context) of the transformation layer, lines 115-180:
\* the whole body is in one try, so that an exception of transform_dataset
\* reaches the same two handlers as one of the event parsing. `call` records
\* the event, whether the event could be parsed, and what transform_dataset did.
\* The events are the notification of the raw object, of an object that is gone,
\* and events that lack a part.
TransformHandler ==
    \E shape \in {"put", "gone", "no_records", "empty_records", "record_is_text",
                  "no_object_key"},
       storage \in {"ok", "get_fails", "put_csv_fails", "put_json_fails"},
       round_raises \in BOOLEAN :
        LET event == [shape |-> shape,
                      key |-> IF shape = "gone"
                              THEN RawKey(DATASETS.incremental[1].name, strftime(2))
                              ELSE SampleKey]
            parsed == parse_event(event)
            call == [fn |-> "lambda_handler", status |-> "return", event |-> event,
                     parsed |-> parsed.status = "return"]
        IN  /\ tout = NoOut
            /\ \E done \in {IF parsed.status = "raise" THEN [status |-> "none"]
                            ELSE transform_dataset(s3, processed, parsed.key, strftime(now),
                                                   storage, round_raises)} :
                 /\ tout' =
                      CASE parsed.status = "raise" ->
                             call @@ error_response(parsed.exc) @@ [transform |-> done]
                        [] done.status = "raise" ->
                             call @@ error_response(done.exc) @@ [transform |-> done]
                        [] OTHER ->
                             call @@ [statusCode |-> 200,
                                      message |-> "Transformation completed successfully",
                                      dataset |-> extract_dataset_name(parsed.key),
                                      summary |-> done.summary,
                                      transform |-> done]
                 /\ processed' = IF parsed.status = "raise" THEN processed ELSE done.store
            /\ UNCHANGED <<frame, fetchVars, pipeVars>>

\* standardize_schema(df) is called; the column is added to the caller's frame,
\* which is the object returned (lines 347, 350)
\* lines 233-269 of transform_dataset: the frame a stage is handed once the
\* first k of the stages that add or rewrite columns have run on it, in their
\* order there (a pandas release whose round leaves an object column alone)
prepared(df, k) ==
    LET call(n, at) ==
            CASE n = 1 -> [status |-> "return", df |-> standardize_schema(at)]
              [] n = 2 -> convert_data_types(at)
              [] n = 3 -> derive_time_fields(at)
              [] n = 4 -> derive_price_metrics(at)
              [] n = 5 -> derive_property_characteristics(at, FALSE)
              [] n = 6 -> derive_location_intelligence(at)
              [] OTHER -> standardize_text(at)
        chain[n \in 0..k] ==
            IF n = 0 THEN [status |-> "return", df |-> df]
            ELSE CHOOSE got \in {IF before.status = "raise" THEN before
                                 ELSE call(n, before.df) : before \in {chain[n-1]}} : TRUE
    IN  chain[k]

ConvertDataTypes ==
    /\ tout = NoOut
    /\ \E arg \in {prepared(frame, 1)} :
          /\ arg.status = "return"
          /\ tout' = [fn |-> "convert_data_types", arg |-> arg.df]
                        @@ convert_data_types(arg.df)
    /\ UNCHANGED <<frame, processed, fetchVars, pipeVars>>

DeriveTimeFields ==
    /\ tout = NoOut
    /\ \E arg \in {prepared(frame, 2)} :
          /\ arg.status = "return"
          /\ tout' = [fn |-> "derive_time_fields", arg |-> arg.df]
                        @@ derive_time_fields(arg.df)
    /\ UNCHANGED <<frame, processed, fetchVars, pipeVars>>

DerivePriceMetrics ==
    /\ tout = NoOut
    /\ \E arg \in {prepared(frame, 3)} :
          /\ arg.status = "return"
          /\ tout' = [fn |-> "derive_price_metrics", arg |-> arg.df]
                        @@ derive_price_metrics(arg.df)
    /\ UNCHANGED <<frame, processed, fetchVars, pipeVars>>

DerivePropertyCharacteristics ==
    /\ tout = NoOut
    /\ \E arg \in {prepared(frame, 4)}, round_raises \in BOOLEAN :
          /\ arg.status = "return"
          /\ tout' = [fn |-> "derive_property_characteristics", arg |-> arg.df]
                        @@ derive_property_characteristics(arg.df, round_raises)
    /\ UNCHANGED <<frame, processed, fetchVars, pipeVars>>

DeriveLocationIntelligence ==
    /\ tout = NoOut
    /\ \E arg \in {prepared(frame, 5)} :
          /\ arg.status = "return"
          /\ tout' = [fn |-> "derive_location_intelligence", arg |-> arg.df]
                        @@ derive_location_intelligence(arg.df)
    /\ UNCHANGED <<frame, processed, fetchVars, pipeVars>>

StandardizeText ==
    /\ tout = NoOut
    /\ \E arg \in {prepared(frame, 6)} :
          /\ arg.status = "return"
          /\ tout' = [fn |-> "standardize_text", arg |-> arg.df]
                        @@ standardize_text(arg.df)
    /\ UNCHANGED <<frame, processed, fetchVars, pipeVars>>

StandardizeSchema ==
    /\ tout = NoOut
    /\ \E df \in {standardize_schema(frame)} :
          tout' = [fn |-> "standardize_schema", status |-> "return", df |-> df, caller |-> df]
    /\ UNCHANGED <<frame, processed, fetchVars, pipeVars>>

\* ------------------------------------------------------------------------
\* Specifications
\* ------------------------------------------------------------------------
\* the bucket before the first run: empty, or holding a blank fingerprint object
InitialBuckets ==
    {EmptyBucket}
    \cup {put_object(EmptyBucket, MetadataKey(n), "") : n \in IncrementalNames}

PipeIdle ==
    /\ hpc = "idle"
    /\ process_mode = ""
    /\ todo = <<>>
    /\ results = <<>>
    /\ summary = NoSummary
    /\ run = NoRun
    /\ incrLast = [n \in IncrementalNames |-> NoEarlier]
    /\ faults = 0
    /\ now = 0
    /\ probe = NoProbe

Init == FetchIdle /\ PipeIdle /\ FrameIdle /\ s3 \in InitialBuckets

\* the handler's runs against the object store
Next ==
    \/ HandlerCall
    \/ ProcessNext
    \/ HandlerReturn
    \/ HandlerExit

Spec == Init /\ [][Next]_vars

\* fetch_all_records called directly, against the upstream
FetchInit == FetchIdle /\ PipeIdle /\ FrameIdle /\ s3 = EmptyBucket

FetchNext == FetchCall \/ FetchStep \/ FetchExit

FetchSpec == FetchInit /\ [][FetchNext]_vars

\* the loop body runs on as long as the call is active
FairFetchSpec == FetchSpec /\ WF_vars(FetchStep)

\* the storage-reading helpers called directly, on sample buckets
GateInit == FetchIdle /\ PipeIdle /\ FrameIdle /\ s3 \in SampleBuckets

GateNext == ProbeShouldProcess \/ ProbeAlreadyDownloaded

GateSpec == GateInit /\ [][GateNext]_vars

\* the transformation functions called on the sample frames: one call on each
\* frame, as every function reads nothing but its arguments
TransformInit ==
    /\ FetchIdle /\ PipeIdle /\ tout = NoOut /\ processed = EmptyBucket
    /\ frame \in SampleFrames
    /\ s3 = put_object(EmptyBucket, SampleKey, frame)

TransformNext ==
    \/ StandardizeSchema
    \/ RemoveDuplicates
    \/ HandleNulls
    \/ ValidateHdbData
    \/ GenerateQualityMetrics
    \/ ConvertDataTypes
    \/ DeriveTimeFields
    \/ DerivePriceMetrics
    \/ DerivePropertyCharacteristics
    \/ DeriveLocationIntelligence
    \/ StandardizeText
    \/ TransformHandler

TransformSpec == TransformInit /\ [][TransformNext]_vars

\* ------------------------------------------------------------------------
\* Properties of fetch_all_records
\* ------------------------------------------------------------------------
NonEmptyPage(p) == PageLen(p) > 0

\* the step is one request of the running call
IsRequest == fpc = "loop" /\ tick' # tick

Is413(resp) == resp.kind = "http" /\ resp.status = 413

\* a non-413 HTTP error, a non-timeout transport error, or a body without
\* 'result' / 'result.records'
Fatal(resp) ==
    \/ resp.kind = "http" /\ resp.status >= 400 /\ resp.status # 413
    \/ resp.kind = "conn"
    \/ resp.kind = "http" /\ resp.status < 400 /\ resp.shape \in {"noresult", "norecords"}

\* the records of the pages are exactly the records 0 .. total-1, in order
Complete(pages, total) ==
    /\ RecordCount(pages) = total
    /\ \A i \in 1..Len(pages) :
          pages[i].lo = (IF i = 1 THEN 0 ELSE pages[i-1].hi)

C1_ReturnedPages ==
    (fpc = "returned" /\ clean) =>
        /\ fetched.status = "return"
        /\ fetched.records = SelectSeq(served, NonEmptyPage)
        /\ Len(served) >= 1
        /\ \A i \in 1..Len(served) : (PageLen(served[i]) = 0) <=> (i = Len(served))
        /\ RecordCount(fetched.records) = RecordCount(served)
        /\ \A i, j \in 1..Len(fetched.records) :
              i # j => fetched.records[i] # fetched.records[j]

C1_NoGap ==
    (IsRequest /\ clean' /\ lastReq # NoRequest) =>
        lastReq'.offset = lastReq.offset + lastReq.limit

\* C1: when no request fails, fetch_all_records returns exactly the non-empty
\* pages served, in request order, and stops at the first empty page: the record
\* count is the sum of the page sizes, no page is appended twice, and every
\* requested range starts where the previous one ended.
C1_Concatenation == [](C1_ReturnedPages) /\ [][C1_NoGap]_vars

\* a clean call that collected at least two pages, the last one short
C1_Witness ==
    /\ fpc = "returned" /\ clean
    /\ Len(fetched.records) >= 2
    /\ PageLen(fetched.records[Len(fetched.records)]) < limit

\* C2: after a 413 at offset o with page size P the next request is at the same
\* offset with a page size of at most P/2, and neither the offset nor the
\* records collected so far change.
C2_HalvedRetry ==
    [][(IsRequest /\ Is413(lastResp') /\ fpc' = "loop") =>
          /\ offset' = offset
          /\ all_records' = all_records
          /\ 2 * limit' <= limit]_vars

\* C3: a 413 at a page size whose half is below the floor of 1000 makes the call
\* fail instead of issuing another request.
C3_FailsBelowFloor ==
    [][(IsRequest /\ Is413(lastResp') /\ limit \div 2 < MinLimit) => fpc' = "raised"]_vars

Converged ==
    /\ fpc = "returned"
    /\ limit <= apiThreshold
    /\ Complete(fetched.records, apiTotal)

\* C4 as stated: against an upstream that rejects every page size above its
\* threshold T and serves the rest, the call ends with a page size <= T and the
\* complete record set, for every T and every initial page size.
C4_ConvergesAnyThreshold ==
    (fpc = "loop" /\ apiMode = "serve") ~> Converged

\* C4 (amended): the same, for every threshold that is at least the floor of
\* 1000 or at least the initial page size.
C4_ConvergesAboveFloor ==
    (/\ fpc = "loop" /\ apiMode = "serve"
     /\ (apiThreshold >= MinLimit \/ initial_limit <= apiThreshold)) ~> Converged

\* the page size was cut down to the threshold and several pages were fetched
C4_Witness ==
    /\ Converged /\ apiMode = "serve"
    /\ initial_limit > apiThreshold
    /\ Len(fetched.records) >= 2

\* C5: when the upstream times out on every request, the call ends with a
\* failure after a bounded number of attempts.
C5_TimeoutsBounded ==
    (fpc = "loop" /\ apiMode = "down") ~> (fpc = "raised")

C6_Raises ==
    (IsRequest /\ Fatal(lastResp')) =>
        /\ fpc' = "raised"
        /\ fetched'.status = "raise"
        /\ fetched'.records = <<>>

C6_NoFurtherRequest ==
    fpc = "raised" => lastReq' \in {lastReq, NoRequest}

\* C6: a non-413 HTTP error, a non-timeout transport error or a body lacking
\* 'result' / 'result.records' makes the call fail at once: the failing
\* request is the last one of the call and no records are returned.
C6_FailsAtOnce == [][C6_Raises /\ C6_NoFurtherRequest]_vars

\* a call that fails on a malformed body after it had collected pages
C6_Witness ==
    /\ fpc = "raised"
    /\ Len(all_records) >= 1
    /\ lastResp.kind = "http" /\ lastResp.shape = "norecords"

\* ------------------------------------------------------------------------
\* Properties of the hash gate and the skip decision
\* ------------------------------------------------------------------------
\* the fingerprint object of a dataset is in the bucket
Stored(bucket, name) == MetadataKey(name) \in DOMAIN bucket

StoredHash(bucket, name) == bucket[MetadataKey(name)]

IsGateProbe == probe.fn = "should_process_dataset"

IsSkipProbe == probe.fn = "check_if_already_downloaded"

\* C7 as stated: should_process_dataset(name, h) returns true if and only if no
\* fingerprint is stored for name or the stored one differs from h.
C7_TrueIffAbsentOrDifferent ==
    IsGateProbe =>
        (probe.ret <=> (~Stored(s3, probe.name) \/ StoredHash(s3, probe.name) # probe.hash))

\* C7 (amended): should_process_dataset(name, h) returns false exactly when the
\* fingerprint object of name is read successfully, is not empty and equals h;
\* in every other case it returns true.
C7_FalseIffReadEqual ==
    IsGateProbe =>
        (~probe.ret <=> (/\ probe.ok
                         /\ Stored(s3, probe.name)
                         /\ StoredHash(s3, probe.name) # ""
                         /\ StoredHash(s3, probe.name) = probe.hash))

\* the gate closed on a fingerprint that was read and matched
C7_Witness ==
    /\ IsGateProbe /\ ~probe.ret /\ probe.ok
    /\ Stored(s3, probe.name) /\ StoredHash(s3, probe.name) = probe.hash

\* some object of the bucket has a key 'raw/<name>_...'
ListsRaw(bucket, name) ==
    \E k \in DOMAIN bucket :
        Len(k) >= 3 /\ k[1] = S3_RAW_PREFIX /\ k[2] = name /\ k[3] = "_"

\* C9: check_if_already_downloaded returns false for an incremental dataset
\* whatever the bucket holds, and for a historical dataset whose list call
\* succeeds it returns true if and only if some key starts with 'raw/<name>_'.
C9_SkipDecision ==
    IsSkipProbe =>
        /\ probe.type = "incremental" => ~probe.ret
        /\ (probe.type = "historical" /\ probe.ok) =>
              (probe.ret <=> ListsRaw(s3, probe.name))

\* a historical dataset found in a bucket that also holds other objects, and an
\* incremental one answered false although its snapshot is there
C9_Witness ==
    /\ IsSkipProbe /\ probe.ok
    /\ \/ probe.type = "historical" /\ probe.ret /\ Cardinality(DOMAIN s3) >= 2
       \/ probe.type = "incremental" /\ ~probe.ret /\ ListsRaw(s3, probe.name)

\* ------------------------------------------------------------------------
\* Properties of process_dataset
\* ------------------------------------------------------------------------
Made(calls, op) == {i \in 1..Len(calls) : calls[i].op = op}

Failed(calls, op) == {i \in Made(calls, op) : ~calls[i].ok}

\* the storage of the call worked: every storage call was answered
Working(r) == Unanswered(r.calls) = 0

C8_FirstRun ==
    (/\ run.type = "incremental" /\ Working(run) /\ run.fetch = "return"
     /\ run.stored = None) =>
        run.status = "processed"

C8_SecondRun ==
    (/\ run.type = "incremental" /\ Working(run) /\ run.fetch = "return"
     /\ run.earlier.status = "processed" /\ run.earlier.fresh /\ run.earlier.working
     /\ run.earlier.csv = run.csv) =>
        /\ run.status = "skipped"
        /\ Made(run.calls, "put") = {}

\* C8: with working storage, a run of an incremental dataset that fetches its
\* records and finds no stored fingerprint ends processed, and the next run of
\* the dataset, when it fetches the same serialized records, ends skipped
\* without a put of a raw object or of a fingerprint.
C8_ProcessedThenSkipped == C8_FirstRun /\ C8_SecondRun

\* the second of two runs on the same records, the first one on a bucket
\* without a fingerprint
C8_Witness ==
    /\ run.type = "incremental" /\ Working(run) /\ run.fetch = "return"
    /\ run.earlier.status = "processed" /\ run.earlier.fresh /\ run.earlier.working
    /\ run.earlier.csv = run.csv
    /\ run.status = "skipped"

\* C10: a list call or a get call that fails does not end the run: the fetch is
\* attempted after a failed list, the raw object is put whenever the fetch
\* returned, and the run ends processed when nothing else fails.
C10_FailOpen ==
    (Failed(run.calls, "list") # {} \/ Failed(run.calls, "get") # {}) =>
        /\ run.fetch # "none"
        /\ run.fetch = "return" => Made(run.calls, "put") # {}
        /\ (run.fetch = "return" /\ Failed(run.calls, "put") = {}) =>
              run.status = "processed"

\* a historical dataset already in the bucket is stored again after a failed
\* list, or an unchanged incremental one after a failed get
C10_Witness ==
    /\ run.status = "processed"
    /\ \/ Failed(run.calls, "list") # {} /\ ListsRaw(s3, run.dataset)
              /\ Cardinality({k \in DOMAIN s3 : Len(k) >= 3 /\ k[2] = run.dataset
                                                   /\ k[1] = S3_RAW_PREFIX}) >= 2
       \/ Failed(run.calls, "get") # {} /\ run.stored = calculate_hash(run.csv)

\* the call met a failure that reaches the except clause of process_dataset
Raised(r) == r.fetch = "raise" \/ Failed(r.calls, "put") # {}

\* the datasets of the results so far and of the datasets still to process are
\* the datasets of the selected mode, in order
LoopIntact ==
    hpc \in {"running", "returned"} =>
        [i \in 1..Len(results) |-> results[i].dataset]
          \o [i \in 1..Len(todo) |-> todo[i].info.name]
        = [i \in 1..Len(Selected(process_mode)) |-> Selected(process_mode)[i].info.name]

LastResultIsRun ==
    (hpc = "running" /\ results # <<>>) =>
        /\ results[Len(results)].dataset = run.dataset
        /\ results[Len(results)].status = run.status

\* C11 as stated: a failure at any stage of a run, the skip check and the
\* fingerprint lookup included, gives the dataset a result with status error.
C11_AnyFailureIsError ==
    (Unanswered(run.calls) > 0 \/ run.fetch = "raise") => run.status = "error"

\* C11 (amended): every call of process_dataset ends with a result; a failed
\* fetch, upload or fingerprint write gives status error (a failed list or get
\* alone does not), and the handler goes on with every remaining dataset of the
\* mode, so that it returns one result per dataset.
C11_ErrorsAreResults ==
    /\ Raised(run) => run.status = "error"
    /\ run.status = "error" => Raised(run)
    /\ LastResultIsRun
    /\ LoopIntact
    /\ hpc = "returned" => todo = <<>>

\* the handler returned after a dataset ended in error and a later one was
\* processed
C11_Witness ==
    /\ hpc = "returned"
    /\ \E i, j \in 1..Len(results) :
          i < j /\ results[i].status = "error" /\ results[j].status = "processed"

\* C12: a run whose fetch fails, however many pages it had collected, puts no
\* raw object and no fingerprint, leaves the bucket as it was, and ends in error.
C12_NoPartialUpload ==
    run.fetch = "raise" =>
        /\ Made(run.calls, "put") = {}
        /\ run.written = {}
        /\ run.status = "error"

\* the fetch failed with pages already collected
C12_Witness ==
    /\ run.fetch = "raise" /\ run.collected >= 1
    /\ run.status = "error"

\* ------------------------------------------------------------------------
\* Properties of lambda_handler
\* ------------------------------------------------------------------------
\* the configured datasets of the categories a mode selects, historical first
ConfiguredNames(mode) ==
    (IF mode \in {"all", "historical"}
     THEN <<"1990-1999", "2000-2012", "2012-2014", "2015-2016">> ELSE <<>>)
    \o (IF mode \in {"all", "incremental"} THEN <<"2017-onwards">> ELSE <<>>)

\* C13: for the modes all, historical and incremental the summary returned has
\* one result per configured dataset of the selected categories, historical
\* before incremental, every status is processed, skipped or error, and
\* total_datasets = processed + skipped + errors = the number of results.
C13_SummaryShape ==
    (hpc = "returned" /\ process_mode \in {"all", "historical", "incremental"}) =>
        LET details == summary.body.details
            counts == summary.body.summary
        IN  /\ summary.statusCode = 200
            /\ counts.mode = process_mode
            /\ [i \in 1..Len(details) |-> details[i].dataset]
                  = ConfiguredNames(process_mode)
            /\ \A i \in 1..Len(details) :
                  details[i].status \in {"processed", "skipped", "error"}
            /\ counts.total_datasets = counts.processed + counts.skipped + counts.errors
            /\ counts.total_datasets = Len(details)
            /\ \A st \in {"processed", "skipped", "error"} :
                  Cardinality({i \in 1..Len(details) : details[i].status = st})
                    = (CASE st = "processed" -> counts.processed
                         [] st = "skipped" -> counts.skipped
                         [] OTHER -> counts.errors)

\* a summary of mode all with datasets processed and datasets skipped, and one
\* with an error among processed datasets
C13_Witness ==
    /\ hpc = "returned" /\ process_mode = "all"
    /\ summary.body.summary.processed >= 1
    /\ summary.body.summary.skipped >= 1 \/ summary.body.summary.errors >= 1

\* ------------------------------------------------------------------------
\* Properties of the transformation functions
\* ------------------------------------------------------------------------
Called(fn) == tout.fn = fn /\ tout.status = "return"

\* the rows of the result are the rows of the argument, cell by cell, on the
\* columns of the argument
KeepsInput(before, after) ==
    /\ before.columns \subseteq after.columns
    /\ Len(after.rows) = Len(before.rows)
    /\ \A i \in 1..Len(before.rows) : \A c \in before.columns :
          after.rows[i][c] = before.rows[i][c]

\* C15: standardize_schema returns a frame with all twelve target columns: a
\* target column the input lacks is added with null values only, and every
\* input column is kept unchanged.
C15_AllTargetColumns ==
    Called("standardize_schema") =>
        /\ RawColumns \subseteq tout.df.columns
        /\ \A c \in RawColumns \ frame.columns :
              \A i \in 1..Len(tout.df.rows) : IsNull(tout.df.rows[i][c])
        /\ KeepsInput(frame, tout.df)

\* the place of the first row of `rows` that equals `row`
FirstAt(rows, row) ==
    CHOOSE i \in 1..Len(rows) : rows[i] = row /\ \A j \in 1..(i-1) : rows[j] # row

\* C16: remove_duplicates keeps the first occurrence of each distinct row, in
\* the original order, with null equal to null; the count it returns is the
\* input row count minus the output row count and the number of rows that
\* repeat an earlier row; on its own output it removes nothing.
C16_FirstOccurrences ==
    Called("remove_duplicates") =>
        LET in == frame.rows
            out == tout.df.rows
        IN  /\ tout.df.columns = frame.columns
            /\ \A k, l \in 1..Len(out) : k # l => out[k] # out[l]
            /\ \A i \in 1..Len(in) : \E k \in 1..Len(out) : out[k] = in[i]
            /\ \A k \in 1..Len(out) : \E i \in 1..Len(in) : in[i] = out[k]
            /\ \A k, l \in 1..Len(out) :
                  k < l => FirstAt(in, out[k]) < FirstAt(in, out[l])
            /\ tout.count = Len(in) - Len(out)
            /\ tout.count = Cardinality({i \in 1..Len(in) :
                                            \E j \in 1..(i-1) : in[j] = in[i]})
            /\ remove_duplicates(tout.df).count = 0
            /\ remove_duplicates(tout.df).df = tout.df

\* a row with a null cell was removed as the repetition of an earlier row, from
\* between rows that were kept
C16_Witness ==
    /\ Called("remove_duplicates")
    /\ tout.count >= 1 /\ Len(tout.df.rows) >= 2
    /\ \E i \in 2..Len(frame.rows) :
          /\ \E c \in frame.columns : IsNull(frame.rows[i][c])
          /\ \E j \in 1..(i-1) : frame.rows[j] = frame.rows[i]

MandatoryFields == {"resale_price", "town", "flat_type", "floor_area_sqm", "month"}

HasAllMandatory(row) == \A c \in MandatoryFields : ~IsNull(row[c])

\* C17: handle_nulls drops a row if and only if one of resale_price, town,
\* flat_type, floor_area_sqm, month is null in it; rows_removed is the number of
\* rows dropped; null_counts gives, for every column, the nulls of the input
\* frame.
C17_DropsMandatoryNulls ==
    Called("handle_nulls") =>
        /\ tout.df.columns = frame.columns
        /\ tout.df.rows = SelectSeq(frame.rows, HasAllMandatory)
        /\ tout.rows_removed
              = Cardinality({i \in 1..Len(frame.rows) : ~HasAllMandatory(frame.rows[i])})
        /\ DOMAIN tout.null_counts = frame.columns
        /\ \A c \in frame.columns :
              tout.null_counts[c]
                = Cardinality({i \in 1..Len(frame.rows) : frame.rows[i][c] = Null})

\* a row without a town was dropped, a row without a flat model was kept
C17_Witness ==
    /\ Called("handle_nulls")
    /\ tout.rows_removed >= 1
    /\ "flat_model" \in frame.columns
    /\ \E i \in 1..Len(tout.df.rows) : IsNull(tout.df.rows[i]["flat_model"])
    /\ tout.null_counts["town"] >= 1 /\ tout.null_counts["flat_model"] >= 1

\* the string has a T or t directly followed by an O or o
HasTo(cell) ==
    /\ cell # Null
    /\ \E i \in 1..(Len(cell.s) - 1) :
          cell.s[i] \in {"T", "t"} /\ cell.s[i+1] \in {"O", "o"}

\* the five rules of the validator; a null value makes the rule fail
RulesHold(row) ==
    LET p == row["resale_price"]
        a == row["floor_area_sqm"]
        l == row["lease_commence_date"]
    IN  /\ p # Null /\ a # Null /\ l # Null /\ row["storey_range"] # Null
        /\ 50000 <= p.n /\ p.n <= 2500000
        /\ 20 <= a.n /\ a.n <= 400
        /\ 1000 * a.n <= p.n /\ p.n <= 20000 * a.n
        /\ 1960 <= l.n /\ l.n <= current_year
        /\ HasTo(row["storey_range"])

ValidatorColumns == {"resale_price", "floor_area_sqm", "lease_commence_date", "storey_range"}

\* C18: validate_hdb_data returns, for every frame with the columns of the
\* rules, exactly the rows for which the five rules hold (a null needed by a
\* rule drops the row), rows_removed is the number of rows dropped, and the
\* columns are those of the input.
C18_KeepsValidRows ==
    (tout.fn = "validate_hdb_data" /\ ValidatorColumns \subseteq frame.columns) =>
        /\ tout.status = "return"
        /\ tout.df.rows = SelectSeq(frame.rows, RulesHold)
        /\ tout.rows_removed
              = Cardinality({i \in 1..Len(frame.rows) : ~RulesHold(frame.rows[i])})
        /\ tout.df.columns = frame.columns

\* the same on the frames in which some storey_range is not null
C18_KeepsValidRowsOfTextColumn ==
    (/\ tout.fn = "validate_hdb_data" /\ ValidatorColumns \subseteq frame.columns
     /\ \E i \in 1..Len(frame.rows) : frame.rows[i]["storey_range"] # Null) =>
        /\ tout.status = "return"
        /\ tout.df.rows = SelectSeq(frame.rows, RulesHold)
        /\ tout.rows_removed
              = Cardinality({i \in 1..Len(frame.rows) : ~RulesHold(frame.rows[i])})
        /\ tout.df.columns = frame.columns

\* C19: generate_quality_metrics, called with a final frame that has no more
\* rows than the original, returns a report whose data_quality_score is
\* final_rows / original_rows * 100 rounded to two decimals (here in
\* hundredths) when there are original rows and 0 when there are none, and the
\* score is between 0 and 100.
C19_ScoreReported ==
    (tout.fn = "generate_quality_metrics" /\ tout.m <= tout.n) =>
        /\ tout.status = "return"
        /\ tout.n = 0 => tout.data_quality_score = 0
        /\ tout.n > 0 =>
              /\ 2 * tout.n * tout.data_quality_score >= 2 * 10000 * tout.m - tout.n
              /\ 2 * tout.n * tout.data_quality_score <= 2 * 10000 * tout.m + tout.n
        /\ tout.data_quality_score >= 0 /\ tout.data_quality_score <= 10000

\* the same for the calls whose final frame holds a priced row
C19_ScoreOfPricedFrame ==
    (/\ tout.fn = "generate_quality_metrics" /\ tout.m <= tout.n
     /\ \E i \in 1..tout.m : frame.rows[i]["resale_price"] # Null) =>
        /\ tout.status = "return"
        /\ tout.n > 0
        /\ 2 * tout.n * tout.data_quality_score >= 2 * 10000 * tout.m - tout.n
        /\ 2 * tout.n * tout.data_quality_score <= 2 * 10000 * tout.m + tout.n
        /\ tout.data_quality_score > 0 /\ tout.data_quality_score <= 10000

\* the entrypoint ran the chain and the chain generated a report
Reported ==
    /\ tout.fn = "lambda_handler"
    /\ tout.parsed
    /\ tout.transform.quality_metrics.status = "return"

\* C20: in every run of the chain that generates a report, the three removal
\* counts account for every removed row: original_rows - final_rows =
\* total_removed = duplicates_removed + nulls_removed + invalid_removed, where
\* original_rows counts the rows read.
C20_RemovalsAddUp ==
    Reported =>
        LET report == tout.transform.quality_metrics
        IN  /\ report.original_rows = Len(frame.rows)
            /\ report.original_rows - report.final_rows = report.total_removed
            /\ report.total_removed
                  = report.duplicates_removed + report.nulls_removed + report.invalid_removed

\* three rows read, one a copy of another and one without a town: one duplicate
\* and one null row are removed, one row is left and written
C20_Witness ==
    /\ Reported
    /\ tout.statusCode = 200
    /\ Len(frame.rows) = 3
    /\ \E i \in 1..3 : IsNull(frame.rows[i]["town"])
    /\ tout.transform.quality_metrics.duplicates_removed = 1
    /\ tout.transform.quality_metrics.nulls_removed = 1
    /\ tout.transform.quality_metrics.invalid_removed = 0
    /\ tout.transform.quality_metrics.final_rows = 1
    /\ tout.transform.quality_metrics.data_quality_score = 3333

\* the processed frame and the report of the call are in the bucket
OutputsWritten ==
    /\ tout.transform.status = "return"
    /\ tout.transform.summary.s3_csv_key \in DOMAIN processed
    /\ tout.transform.summary.s3_quality_key \in DOMAIN processed
    /\ processed[tout.transform.summary.s3_csv_key] = tout.transform.df
    /\ processed[tout.transform.summary.s3_quality_key] = tout.transform.quality_metrics

\* C14: the entrypoint of the transformation answers 400 exactly when bucket or
\* key cannot be taken from the event, 500 exactly when the event was read and
\* something failed afterwards, transform_dataset included, and 200 exactly
\* when the transformation completed and its outputs were written.
C14_StatusCodes ==
    tout.fn = "lambda_handler" =>
        /\ tout.statusCode \in {200, 400, 500}
        /\ tout.statusCode = 400 <=> ~tout.parsed
        /\ tout.statusCode = 500 <=> (tout.parsed /\ tout.transform.status = "raise")
        /\ tout.statusCode = 200 <=> (tout.parsed /\ OutputsWritten)

\* the part of it about success alone
C14_SuccessIffWritten ==
    tout.fn = "lambda_handler" =>
        (tout.statusCode = 200 <=> (tout.parsed /\ OutputsWritten))

\* ------------------------------------------------------------------------
\* Storey parsing
\* ------------------------------------------------------------------------
\* C21: derive_property_characteristics never fails, and for every row a
\* storey_range '<lower> TO <upper>', with any blanks around the parts and 'TO'
\* in any letter case, gives the two integers and their mean as storey_lower,
\* storey_upper and storey_median, while every other value, a null one
\* included, gives three nulls.
C21_StoreyParsedInAnyCase ==
    tout.fn = "derive_property_characteristics" =>
        /\ tout.status = "return"
        /\ \A i \in 1..Len(tout.arg.rows) :
              LET cell == tout.arg.rows[i]["storey_range"]
                  form == IF IsNull(cell) THEN <<Null, Null>>
                          ELSE parse_storey_range(
                                   Str([j \in 1..Len(cell.s) |-> upper(cell.s[j])]))
                  row == tout.df.rows[i]
              IN  /\ row["storey_lower"] = form[1]
                  /\ row["storey_upper"] = form[2]
                  /\ row["storey_median"] =
                        IF IsNull(form[1]) THEN Null ELSE Dec((form[1].n + form[2].n) * 50)

\* what holds for C21: when the call returns, a storey_range with 'TO' in upper
\* case gives the two integers and their mean, blanks around the parts or not,
\* and every other value gives three nulls
C21_StoreyParsedInUpperCase ==
    Called("derive_property_characteristics") =>
        \A i \in 1..Len(tout.arg.rows) :
            LET form == parse_storey_range(tout.arg.rows[i]["storey_range"])
                row == tout.df.rows[i]
            IN  /\ row["storey_lower"] = form[1]
                /\ row["storey_upper"] = form[2]
                /\ row["storey_median"] =
                      IF IsNull(form[1]) THEN Null ELSE Dec((form[1].n + form[2].n) * 50)

\* ------------------------------------------------------------------------
\* Remaining lease
\* ------------------------------------------------------------------------
\* the text '<n> years' for a positive estimate n, read back by to_int
YearsOf(cell) ==
    IF cell.k = "str" /\ Len(cell.s) > 6
       /\ SubSeq(cell.s, Len(cell.s) - 5, Len(cell.s)) = <<" ", "y", "e", "a", "r", "s">>
    THEN to_int(SubSeq(cell.s, 1, Len(cell.s) - 6))
    ELSE Null

\* C22: derive_property_characteristics decides once for the frame: when some
\* row has a remaining_lease, no row's remaining_lease is changed, and when no
\* row has one, each row gets '<99 - lease_age> years' if 99 - lease_age is
\* positive and null otherwise.
C22_LeaseSynthesisPerFrame ==
    Called("derive_property_characteristics") =>
        \A i \in 1..Len(tout.arg.rows) :
            LET before == tout.arg.rows[i]["remaining_lease"]
                row == tout.df.rows[i]
                lease == tout.arg.rows[i]["lease_commence_date"]
                left == 99 - (current_year - lease.n)
            IN  IF \E j \in 1..Len(tout.arg.rows) :
                       ~IsNull(tout.arg.rows[j]["remaining_lease"])
                THEN row["remaining_lease"] = before
                ELSE IF ~IsNull(lease) /\ left > 0
                     THEN YearsOf(row["remaining_lease"]) = Num(left)
                     ELSE IsNull(row["remaining_lease"])

\* C22 witness: a frame without any remaining_lease in which one row got a text
\* and another, whose lease began more than 99 years ago, stayed null; the
\* frames in which some row has a remaining_lease are those of C22_WitnessKept
C22_Witness ==
    /\ Called("derive_property_characteristics")
    /\ \A i \in 1..Len(tout.arg.rows) : IsNull(tout.arg.rows[i]["remaining_lease"])
    /\ \E i, j \in 1..Len(tout.df.rows) :
          /\ YearsOf(tout.df.rows[i]["remaining_lease"]) = Num(60)
          /\ IsNull(tout.df.rows[j]["remaining_lease"])

\* ------------------------------------------------------------------------
\* The order of the writes of one process_dataset run
\* ------------------------------------------------------------------------
\* C23: in one run the fingerprint is put only after the raw object was put
\* and the put was answered; a run that ends skipped makes no put and changes
\* no object; and every object the run changed is the object of an answered
\* put, so the list call of check_if_already_downloaded and the get call of
\* should_process_dataset write nothing.
C23_FingerprintAfterRaw ==
    run.dataset # "" =>
        /\ \A i \in Made(run.calls, "put") :
              run.calls[i].key = MetadataKey(run.dataset) =>
                  \E j \in Made(run.calls, "put") :
                      /\ j < i
                      /\ run.calls[j].ok
                      /\ StartsWith(run.calls[j].key, RawPrefix(run.dataset))
        /\ MetadataKey(run.dataset) \in run.written =>
              \E k \in run.written : StartsWith(k, RawPrefix(run.dataset))
        /\ run.status = "skipped" => Made(run.calls, "put") = {} /\ run.written = {}
        /\ run.written \subseteq
              {run.calls[i].key : i \in Made(run.calls, "put") \ Failed(run.calls, "put")}

\* C23 witness: a run of the incremental dataset that read the stored
\* fingerprint, found another one, put the raw object and then the fingerprint
C23_Witness ==
    /\ run.type = "incremental" /\ run.status = "processed"
    /\ run.stored # None
    /\ Made(run.calls, "get") # {}
    /\ MetadataKey(run.dataset) \in run.written
    /\ \E k \in run.written : StartsWith(k, RawPrefix(run.dataset))

\* C26: a run that ends with status error changed no object of the bucket:
\* neither a raw object nor the fingerprint of the dataset was written.
C26_ErrorLeavesStorage ==
    run.status = "error" => run.written = {}

\* what holds for C26: a run that ends in error never wrote the fingerprint, and
\* wrote a raw object only when the put of the fingerprint was the call that
\* failed
C26_ErrorWritesNoFingerprint ==
    run.status = "error" =>
        /\ MetadataKey(run.dataset) \notin run.written
        /\ run.written # {} =>
              \E i \in Failed(run.calls, "put") :
                  run.calls[i].key = MetadataKey(run.dataset)

\* ------------------------------------------------------------------------
\* Historical datasets are downloaded once
\* ------------------------------------------------------------------------
\* the raw objects of the run's dataset that were in the bucket when the run began
RawBefore == {k \in DOMAIN s3 \ run.written : StartsWith(k, RawPrefix(run.dataset))}

\* C27: a run that ends processed leaves a raw object of its dataset, no step
\* removes an object, and a run of a historical dataset that begins with a raw
\* object of the dataset in the bucket and whose list call is answered ends
\* skipped without a fetch request, a put or a changed object.
C27_ProcessedOnce ==
    /\ [](run.status = "processed" =>
              \E k \in run.written : StartsWith(k, RawPrefix(run.dataset)))
    /\ [][DOMAIN s3 \subseteq DOMAIN s3']_vars
    /\ []((run.type = "historical" /\ RawBefore # {} /\ Failed(run.calls, "list") = {}) =>
              /\ run.status = "skipped"
              /\ run.fetch = "none"
              /\ run.calls = <<Call("list", RawPrefix(run.dataset), TRUE)>>
              /\ run.written = {})

\* C27 witness: the second handler run skips a historical dataset, no call
\* having failed since the bucket was empty, so that the raw object it finds is
\* the one a processed run wrote
C27_Witness ==
    /\ run.type = "historical" /\ run.status = "skipped"
    /\ faults = 0 /\ now = 2
    /\ RawBefore # {}

\* ------------------------------------------------------------------------
\* The page size within one fetch_all_records call
\* ------------------------------------------------------------------------
\* C25: within one call the page size of a request is never larger than the
\* page size of the request before it, whatever limit the caller passed and
\* whatever the upstream answered.
C25_PageSizeNeverGrows ==
    [][(lastReq # NoRequest /\ lastReq' # NoRequest) =>
          lastReq'.limit <= lastReq.limit]_vars

\* what holds for C25: the page size never grows in a call whose caller passed
\* a limit of at least 1000
C25_PageSizeNeverGrowsFromFloor ==
    [][(lastReq # NoRequest /\ lastReq' # NoRequest /\ initial_limit >= MinLimit) =>
          lastReq'.limit <= lastReq.limit]_vars

\* ------------------------------------------------------------------------
\* Ownership of the frames
\* ------------------------------------------------------------------------
\* the frame the caller passed to the stage that was called
Passed == IF tout.fn \in {"standardize_schema", "validate_hdb_data"} THEN frame ELSE tout.arg

\* C24: after a call of standardize_schema, convert_data_types, one of the four
\* derive_* passes, standardize_text or validate_hdb_data has returned, the
\* frame the caller passed in has the columns and the values it had before the
\* call.
C24_StagesLeaveInput ==
    (/\ tout.status = "return"
     /\ tout.fn \in {"standardize_schema", "convert_data_types", "derive_time_fields",
                     "derive_price_metrics", "derive_property_characteristics",
                     "derive_location_intelligence", "standardize_text",
                     "validate_hdb_data"}) =>
        tout.caller = Passed

\* what holds for C24: the stages that drop rows and return a count beside the
\* frame, remove_duplicates and handle_nulls, leave the caller's frame as it
\* was, and validate_hdb_data leaves it with one more column
C24_FilteringStagesLeaveRows ==
    /\ Called("handle_nulls") => tout.caller = frame
    /\ Called("validate_hdb_data") =>
          /\ tout.caller.columns = frame.columns \cup {"price_per_sqm_temp"}
          /\ KeepsInput(frame, tout.caller)

\* ------------------------------------------------------------------------
\* The frame transform_dataset writes
\* ------------------------------------------------------------------------
\* the frames under the processed prefix of the bucket (save_to_s3, line 995)
WrittenFrames == {processed[k] : k \in {j \in DOMAIN processed : j[1] = "processed/"}}

\* C28: the frame written by transform_dataset has no two rows that are equal
\* in every column.
C28_WrittenRowsDistinct ==
    \A df \in WrittenFrames :
        \A i, j \in 1..Len(df.rows) : i # j => df.rows[i] # df.rows[j]

\* what holds for C28: the written frame has no more rows than the file read
\* has distinct rows
C28_WrittenRowsFromDistinctRows ==
    \A df \in WrittenFrames :
        Len(df.rows) <= Cardinality({frame.rows[i] : i \in 1..Len(frame.rows)})

\* strip() and upper() of a text
Standard(chars) == [i \in 1..Len(strip(chars)) |-> upper(strip(chars)[i])]

\* region and estate_maturity of the row are those of the table entries of its
\* own town, upper-cased
AgreesWithTown(row) ==
    LET keys == {i \in 1..Len(REGION_MAPPING) : REGION_MAPPING[i][1] = row["town"].s}
    IN  /\ row["region"].s =
              IF keys = {} THEN <<"O", "T", "H", "E", "R", "S">>
              ELSE Standard(REGION_MAPPING[CHOOSE i \in keys : TRUE][2])
        /\ row["estate_maturity"].s =
              IF row["town"].s \in MATURE_ESTATES THEN <<"M", "A", "T", "U", "R", "E">>
              ELSE <<"N", "O", "N", "-", "M", "A", "T", "U", "R", "E">>

\* C29: in the frame written by transform_dataset every row's region is the
\* upper-cased REGION_MAPPING entry of the row's town as written, OTHERS when
\* the town is no key of the table, and its estate_maturity is MATURE exactly
\* when that town is in MATURE_ESTATES, whatever the letter case and the blanks
\* of the town in the file.
C29_LocationOfOutputTown ==
    \A df \in WrittenFrames : \A i \in 1..Len(df.rows) : AgreesWithTown(df.rows[i])

\* what holds for C29: the same for files whose towns are written in upper case
\* without blanks around them
C29_LocationOfStandardTown ==
    (\A i \in 1..Len(frame.rows) :
        "town" \in frame.columns /\ frame.rows[i]["town"].k = "str" =>
            frame.rows[i]["town"].s = Standard(frame.rows[i]["town"].s)) =>
        \A df \in WrittenFrames : \A i \in 1..Len(df.rows) : AgreesWithTown(df.rows[i])

\* ------------------------------------------------------------------------
\* Files of which no row is left
\* ------------------------------------------------------------------------
\* the file read has no row that passes handle_nulls and validate_hdb_data: it
\* has no columns at all, or it has the twelve columns and every row has a null
\* mandatory field or breaks a validation rule
NoRowLeft ==
    \/ frame.columns = {}
    \/ /\ frame.columns = RawColumns
       /\ \A i \in 1..Len(frame.rows) :
             \/ \E c \in critical_fields : IsNull(frame.rows[i][c])
             \/ ~all_valid(frame.rows[i])

\* the entrypoint was called for such a file and the object was read
RanOnNoRowLeft ==
    /\ tout.fn = "lambda_handler" /\ tout.parsed /\ tout.event.shape = "put"
    /\ NoRowLeft
    /\ tout.transform.exc # "ClientError"

\* C30: when no row of the file is left, an empty file included,
\* generate_quality_metrics fails, no processed CSV and no quality report is
\* written, and the entrypoint returns statusCode 500.
C30_EmptyFailsInQualityMetrics ==
    RanOnNoRowLeft =>
        /\ tout.transform.status = "raise"
        /\ tout.transform.raised_in = "generate_quality_metrics"
        /\ processed = EmptyBucket
        /\ tout.statusCode = 500

\* what holds for C30: the call fails, nothing is written and the answer is
\* 500; the exception comes from generate_quality_metrics only if some row had
\* its mandatory fields, so that validate_hdb_data removed the last row
C30_EmptyWritesNothing ==
    RanOnNoRowLeft =>
        /\ tout.transform.status = "raise"
        /\ processed = EmptyBucket
        /\ tout.statusCode = 500
        /\ tout.transform.raised_in = "generate_quality_metrics" =>
              \E i \in 1..Len(frame.rows) :
                  \A c \in critical_fields : ~IsNull(frame.rows[i][c])

====
